---- MODULE Spec2Model ----
(***************************************************************************)
(* Barycentric projection library of reterminal_e100x                      *)
(* (src/src/barycentric): LineProjector, TriangleProjector,                *)
(* ClippingTriangleProjector, TetrahedronProjector, OctahedronProjector.   *)
(*                                                                         *)
(* The numeric field T of the library is modelled by exact rationals       *)
(* <<numerator, denominator>> in lowest terms with a positive denominator. *)
(* Vectors and arrays are functions over 0..n-1 so that the index          *)
(* arithmetic of the source is kept as written.                            *)
(***************************************************************************)
EXTENDS Integers, Sequences, FiniteSets, TLC

(***************************************************************************)
(* Exact rational arithmetic (the scalar type T).                          *)
(***************************************************************************)
Abs(n) == IF n < 0 THEN -n ELSE n

RECURSIVE GCD(_, _)
GCD(a, b) == IF b = 0 THEN a ELSE GCD(b, a % b)

\* The value a division by zero leaves behind (inf / NaN of a float T).
DivByZero == <<1, 0>>

Norm(n, d) ==
    IF d = 0 THEN DivByZero
    ELSE IF n = 0 THEN <<0, 1>>
    ELSE LET g == GCD(Abs(n), Abs(d))
             s == IF d < 0 THEN -1 ELSE 1
         IN  <<(s * n) \div g, (s * d) \div g>>

zero == <<0, 1>>
one == <<1, 1>>
Int2R(n) == <<n, 1>>

RAdd(a, b) == IF a[2] = 0 \/ b[2] = 0 THEN DivByZero
              ELSE IF a[2] = b[2] THEN Norm(a[1] + b[1], a[2])
              ELSE Norm(a[1] * b[2] + b[1] * a[2], a[2] * b[2])
RNeg(a) == <<-a[1], a[2]>>
RSub(a, b) == RAdd(a, RNeg(b))
RMul(a, b) == IF a[2] = 0 \/ b[2] = 0 THEN DivByZero
              ELSE IF a[1] = 0 \/ b[1] = 0 THEN zero
              ELSE Norm(a[1] * b[1], a[2] * b[2])
RDiv(a, b) == IF a[2] = 0 \/ b[2] = 0 \/ b[1] = 0 THEN DivByZero
              ELSE Norm(a[1] * b[2], a[2] * b[1])
\* Comparisons with a NaN operand are false, as PartialOrd has them.
RLt(a, b) == a[2] # 0 /\ b[2] # 0 /\ a[1] * b[2] < b[1] * a[2]
RLe(a, b) == a[2] # 0 /\ b[2] # 0 /\ a[1] * b[2] <= b[1] * a[2]
RGe(a, b) == RLe(b, a)
RGt(a, b) == RLt(b, a)
RIsZero(a) == a[2] # 0 /\ a[1] = 0

(***************************************************************************)
(* Vectors (functions over 0..n-1) and matrices (row |-> column |-> T).    *)
(***************************************************************************)
Dim(v) == Cardinality(DOMAIN v)

RECURSIVE SumUpTo(_, _)
SumUpTo(v, n) == IF n = 0 THEN zero ELSE RAdd(SumUpTo(v, n - 1), v[n - 1])
\* nalgebra sum(): the sum of the components
VSum(v) == SumUpTo(v, Dim(v))

RECURSIVE MinUpTo(_, _)
MinUpTo(v, n) ==
    IF n = 1 THEN v[0]
    ELSE LET m == MinUpTo(v, n - 1) IN IF RLt(v[n - 1], m) THEN v[n - 1] ELSE m
\* nalgebra min(): the smallest component
VMin(v) == MinUpTo(v, Dim(v))

VAdd(a, b) == [i \in DOMAIN a |-> RAdd(a[i], b[i])]
VSub(a, b) == [i \in DOMAIN a |-> RSub(a[i], b[i])]
VScale(a, k) == [i \in DOMAIN a |-> RMul(a[i], k)]
VDivS(a, k) == [i \in DOMAIN a |-> RDiv(a[i], k)]
Dot(a, b) == VSum([i \in DOMAIN a |-> RMul(a[i], b[i])])
NormSquared(a) == Dot(a, a)
Cross(a, b) ==
    [i \in 0..2 |->
        RSub(RMul(a[(i + 1) % 3], b[(i + 2) % 3]),
             RMul(a[(i + 2) % 3], b[(i + 1) % 3]))]
MatVec(m, v) == [r \in DOMAIN m |-> Dot(m[r], v)]
\* Point3::to_homogeneous: (x, y, z, 1)
ToHomogeneous(p) == [i \in 0..3 |-> IF i < 3 THEN p[i] ELSE one]
\* Matrix::from_columns: column c of the result is cols[c]
FromColumns(cols) == [r \in DOMAIN cols[0] |-> [c \in DOMAIN cols |-> cols[c][r]]]

\* The matrix m without row i and column j, re-indexed from 0.
Minor(m, i, j) ==
    LET n == Dim(m)
    IN  [r \in 0..(n - 2) |-> [c \in 0..(n - 2) |->
            m[IF r < i THEN r ELSE r + 1][IF c < j THEN c ELSE c + 1]]]

RECURSIVE Det(_)
RECURSIVE DetRow0(_, _)
DetRow0(m, j) ==
    IF j < 0 THEN zero
    ELSE LET t == RMul(m[0][j], Det(Minor(m, 0, j)))
         IN  RAdd(DetRow0(m, j - 1), IF j % 2 = 0 THEN t ELSE RNeg(t))
Det(m) == IF Dim(m) = 1 THEN m[0][0] ELSE DetRow0(m, Dim(m) - 1)

\* Option<T>: None, or Some(x) holding x in field val.
None == [some |-> FALSE]
Some(x) == [some |-> TRUE, val |-> x]

\* nalgebra try_inverse: None for a singular matrix, else the inverse
\* (adjugate divided by the determinant).
TryInverse(m) ==
    LET d == Det(m)
    IN  IF RIsZero(d) THEN None
        ELSE Some([r \in DOMAIN m |-> [c \in DOMAIN m |->
                LET cof == Det(Minor(m, c, r))
                IN  RDiv(IF (r + c) % 2 = 0 THEN cof ELSE RNeg(cof), d)]])

(***************************************************************************)
(* LineProjector (barycentric/line.rs).                                    *)
(***************************************************************************)
Vec2(a, b) == [i \in 0..1 |-> IF i = 0 THEN a ELSE b]

LineNew(vertices) ==
    LET a == vertices[0]
        b == vertices[1]
        direction == VSub(b, a)
    IN  [origin |-> a, direction |-> direction,
         norm_squared |-> Dot(direction, direction)]

\* Mutant: the test for a zero-length segment left out.
LineProjectNoZeroCheck(self, pt) ==
    LET origin_to_pt == VSub(pt, self.origin)
        origin_to_pt_dist_sq == Dot(origin_to_pt, origin_to_pt)
    IN  IF RIsZero(origin_to_pt_dist_sq) THEN Vec2(one, zero)
        ELSE LET t == RDiv(Dot(origin_to_pt, self.direction), self.norm_squared)
             IN  Vec2(RSub(one, t), t)

LineProject(self, pt) ==
    IF RIsZero(self.norm_squared) THEN Vec2(one, zero)
    ELSE LET origin_to_pt == VSub(pt, self.origin)
             origin_to_pt_dist_sq == Dot(origin_to_pt, origin_to_pt)
         IN  IF RIsZero(origin_to_pt_dist_sq) THEN Vec2(one, zero)
             ELSE LET t == RDiv(Dot(origin_to_pt, self.direction), self.norm_squared)
                  IN  Vec2(RSub(one, t), t)

\* Mutant: the point is placed by the first coordinate.
LineBaryToPointFirstCoord(self, barycentric_coords) ==
    VAdd(self.origin, VScale(self.direction, barycentric_coords[0]))

LineBaryToPoint(self, barycentric_coords) ==
    VAdd(self.origin, VScale(self.direction, barycentric_coords[1]))

\* Mutant: the two clipped endpoints exchanged.
LineClippingProjectSwapped(self, pt) ==
    LET ret == LineProject(self, pt)
    IN  IF RLt(ret[0], zero) THEN <<Vec2(one, zero), TRUE>>
        ELSE IF RLt(ret[1], zero) THEN <<Vec2(zero, one), TRUE>>
        ELSE <<ret, FALSE>>

\* Mutant: only the far end is clamped.
LineClippingProjectOneSided(self, pt) ==
    LET ret == LineProject(self, pt)
    IN  IF RLt(ret[1], zero) THEN <<Vec2(one, zero), TRUE>>
        ELSE <<ret, FALSE>>

\* Returns <<barycentric, clipped>>.
LineClippingProject(self, pt) ==
    LET ret == LineProject(self, pt)
    IN  IF RLt(ret[0], zero) THEN <<Vec2(zero, one), TRUE>>
        ELSE IF RLt(ret[1], zero) THEN <<Vec2(one, zero), TRUE>>
        ELSE <<ret, FALSE>>

(***************************************************************************)
(* TriangleProjector and ClippingTriangleProjector                         *)
(* (barycentric/triangle.rs).  A constructor whose try_inverse().unwrap()  *)
(* panics yields Panic instead of a projector; a projector has ok = TRUE.   *)
(***************************************************************************)
Panic == [ok |-> FALSE]

Vec3(a, b, c) == [i \in 0..2 |-> IF i = 0 THEN a ELSE IF i = 1 THEN b ELSE c]

\* Mutant: the first two rows of the inverse (t and u) are kept instead of
\* the last two (u and v).
TriangleNewKeepsT(vertices) ==
    LET v1 == vertices[0]
        v1_to_v2 == VSub(vertices[1], v1)
        v1_to_v3 == VSub(vertices[2], v1)
        normal == Cross(v1_to_v2, v1_to_v3)
        neg_normal == VSub(Vec3(zero, zero, zero), normal)
        premul == FromColumns(Vec3(neg_normal, v1_to_v2, v1_to_v3))
        project_matrix_tuv == TryInverse(premul)
    IN  IF ~project_matrix_tuv.some THEN Panic
        ELSE [ok |-> TRUE, v1 |-> v1,
              project_matrix |-> [r \in 0..1 |-> project_matrix_tuv.val[r]]]

TriangleNew(vertices) ==
    LET v1 == vertices[0]
        v1_to_v2 == VSub(vertices[1], v1)
        v1_to_v3 == VSub(vertices[2], v1)
        normal == Cross(v1_to_v2, v1_to_v3)
        neg_normal == VSub(Vec3(zero, zero, zero), normal)
        premul == FromColumns(Vec3(neg_normal, v1_to_v2, v1_to_v3))
        project_matrix_tuv == TryInverse(premul)
    IN  IF ~project_matrix_tuv.some THEN Panic
        ELSE [ok |-> TRUE, v1 |-> v1,
              project_matrix |-> [r \in 0..1 |-> project_matrix_tuv.val[r + 1]]]

\* Mutant: v is not subtracted in w.
TriangleProjectForgetsV(self, pt) ==
    LET v1_to_pt == VSub(pt, self.v1)
        uv == MatVec(self.project_matrix, v1_to_pt)
        w == RSub(one, uv[0])
    IN  Vec3(w, uv[0], uv[1])

TriangleProject(self, pt) ==
    LET v1_to_pt == VSub(pt, self.v1)
        uv == MatVec(self.project_matrix, v1_to_pt)
        w == RSub(RSub(one, uv[0]), uv[1])
    IN  Vec3(w, uv[0], uv[1])

\* Mutant: line i runs from vertex i to vertex i+1 instead of being the
\* edge opposite vertex i.
ClippingTriangleNewOwnEdge(vertices) ==
    LET lines == [i \in 0..2 |->
                    LineNew(Vec2(vertices[i], vertices[(i + 1) % 3]))]
        normal_project == TriangleNew(vertices)
    IN  IF ~normal_project.ok THEN Panic
        ELSE [ok |-> TRUE, vertices |-> FromColumns(vertices), lines |-> lines,
              normal_project |-> normal_project]

ClippingTriangleNew(vertices) ==
    LET lines == [i \in 0..2 |->
                    LineNew(Vec2(vertices[(i + 1) % 3], vertices[(i + 2) % 3]))]
        normal_project == TriangleNew(vertices)
    IN  IF ~normal_project.ok THEN Panic
        ELSE [ok |-> TRUE, vertices |-> FromColumns(vertices), lines |-> lines,
              normal_project |-> normal_project]

ClippingTriangleProjectRaw(self, pt) == TriangleProject(self.normal_project, pt)

ClippingTriangleBaryToPoint(self, barycentric_coords) ==
    MatVec(self.vertices, barycentric_coords)

\* Mutant: the second coordinate placed without wrapping around, so that it
\* is lost for index 1 and 2.
CandidateBarycentricNoWrap(index, line_barycentric) ==
    [i \in 0..2 |->
        IF i = (index + 1) % 3 THEN line_barycentric[0]
        ELSE IF i = index + 2 THEN line_barycentric[1]
        ELSE zero]

\* The candidate of the edge opposite vertex `index`: the line's coordinates
\* placed at the edge's two vertices.
CandidateBarycentric(index, line_barycentric) ==
    [i \in 0..2 |->
        IF i = (index + 1) % 3 THEN line_barycentric[0]
        ELSE IF i = (index + 2) % 3 THEN line_barycentric[1]
        ELSE zero]

\* Mutant: a better candidate replaces best_barycentric but leaves
\* best_distance_sq as it was.
RECURSIVE ClipEdgesStaleDistance(_, _, _, _, _, _)
ClipEdgesStaleDistance(self, pt, barycentric, index, best_barycentric, best_distance_sq) ==
    IF index = 3
    THEN [bary |-> best_barycentric, clipped |-> TRUE,
          dist |-> Some(best_distance_sq), path |-> "best"]
    ELSE IF RLt(barycentric[index], zero)
    THEN LET lc == LineClippingProject(self.lines[index], pt)
             candidate_barycentric == CandidateBarycentric(index, lc[1])
         IN  IF ~lc[2]
             THEN [bary |-> candidate_barycentric, clipped |-> TRUE,
                   dist |-> None, path |-> "edge"]
             ELSE LET candidate_distance_sq ==
                          NormSquared(VSub(ClippingTriangleBaryToPoint(
                                               self, candidate_barycentric), pt))
                  IN  IF RLt(candidate_distance_sq, best_distance_sq)
                      THEN ClipEdgesStaleDistance(self, pt, barycentric,
                               index + 1, candidate_barycentric, best_distance_sq)
                      ELSE ClipEdgesStaleDistance(self, pt, barycentric,
                               index + 1, best_barycentric, best_distance_sq)
    ELSE ClipEdgesStaleDistance(self, pt, barycentric, index + 1,
                                best_barycentric, best_distance_sq)

\* The loop `for index in 0..3` of clipping_project from `index` on, with the
\* best candidate so far.  Returns [bary, clipped, dist, path].
RECURSIVE ClipEdges(_, _, _, _, _, _)
ClipEdges(self, pt, barycentric, index, best_barycentric, best_distance_sq) ==
    IF index = 3
    THEN [bary |-> best_barycentric, clipped |-> TRUE,
          dist |-> Some(best_distance_sq), path |-> "best"]
    ELSE IF RLt(barycentric[index], zero)
    THEN LET lc == LineClippingProject(self.lines[index], pt)
             candidate_barycentric == CandidateBarycentric(index, lc[1])
         IN  IF ~lc[2]
             THEN [bary |-> candidate_barycentric, clipped |-> TRUE,
                   dist |-> None, path |-> "edge"]
             ELSE LET candidate_distance_sq ==
                          NormSquared(VSub(ClippingTriangleBaryToPoint(
                                               self, candidate_barycentric), pt))
                  IN  IF RLt(candidate_distance_sq, best_distance_sq)
                      THEN ClipEdges(self, pt, barycentric, index + 1,
                                     candidate_barycentric, candidate_distance_sq)
                      ELSE ClipEdges(self, pt, barycentric, index + 1,
                                     best_barycentric, best_distance_sq)
    ELSE ClipEdges(self, pt, barycentric, index + 1,
                   best_barycentric, best_distance_sq)

\* Clamp the negative components to zero.
ClampNegative(v) == [i \in DOMAIN v |-> IF RLt(v[i], zero) THEN zero ELSE v[i]]

ClippingTriangleClippingProject(self, pt) ==
    LET barycentric == ClippingTriangleProjectRaw(self, pt)
    IN  IF RGe(VMin(barycentric), zero)
        THEN [bary |-> barycentric, clipped |-> FALSE, dist |-> None,
              path |-> "inside"]
        ELSE LET clamped == ClampNegative(barycentric)
                 best_barycentric_sum == VSum(clamped)
                 best_barycentric == VDivS(clamped, best_barycentric_sum)
                 best_distance_sq ==
                     NormSquared(VSub(ClippingTriangleBaryToPoint(
                                          self, best_barycentric), pt))
             IN  ClipEdges(self, pt, barycentric, 0, best_barycentric,
                           best_distance_sq)

(***************************************************************************)
(* TetrahedronProjector (barycentric/tetrahedron.rs).                      *)
(***************************************************************************)
\* Mutant: the vertices laid out as rows instead of columns.
TetrahedronNewFromRows(vertices) ==
    LET from_barycentric == [i \in 0..3 |-> ToHomogeneous(vertices[i])]
        to_barycentric == TryInverse(from_barycentric)
    IN  IF ~to_barycentric.some THEN Panic
        ELSE [ok |-> TRUE, to_barycentric |-> to_barycentric.val,
              from_barycentric |-> from_barycentric]

TetrahedronNew(vertices) ==
    LET from_barycentric ==
            FromColumns([i \in 0..3 |-> ToHomogeneous(vertices[i])])
        to_barycentric == TryInverse(from_barycentric)
    IN  IF ~to_barycentric.some THEN Panic
        ELSE [ok |-> TRUE, to_barycentric |-> to_barycentric.val,
              from_barycentric |-> from_barycentric]

\* Mutant: the point is extended by 0 (as a vector) instead of 1.
TetrahedronProjectAsVector(self, pt) ==
    MatVec(self.to_barycentric, [i \in 0..3 |-> IF i < 3 THEN pt[i] ELSE zero])

TetrahedronProject(self, pt) == MatVec(self.to_barycentric, ToHomogeneous(pt))

\* Point3::from_homogeneous divides by the last coordinate and is None when
\* that coordinate is zero (the unwrap of the source then panics).
TetrahedronBaryToPoint(self, barycentric_coords) ==
    LET h == MatVec(self.from_barycentric, barycentric_coords)
    IN  IF RIsZero(h[3]) THEN None
        ELSE Some([i \in 0..2 |-> RDiv(h[i], h[3])])

(***************************************************************************)
(* OctahedronProjector (barycentric/octahedron.rs).                        *)
(* vertices: 0 and 1 are the poles, 2..5 the equatorial ring in cyclic     *)
(* order.                                                                  *)
(***************************************************************************)
Vec4(a, b, c, d) ==
    [i \in 0..3 |-> IF i = 0 THEN a ELSE IF i = 1 THEN b ELSE IF i = 2 THEN c ELSE d]

Vec6Zero == [i \in 0..5 |-> zero]

OctahedronNew(vertices) ==
    LET wedges == [i \in 0..3 |->
            TetrahedronNew(Vec4(vertices[0], vertices[1],
                                vertices[2 + (i % 4)], vertices[2 + ((i + 1) % 4)]))]
        faces == [i \in 0..7 |->
            LET pole == i \div 4
            IN  TriangleNew(Vec3(vertices[pole], vertices[2 + (i % 4)],
                                 vertices[2 + ((i + 1) % 4)]))]
        edges == [i \in 0..11 |->
            LET pole_index == i \div 4
                equator_index == i % 4
            IN  IF pole_index < 2
                THEN LineNew(Vec2(vertices[pole_index], vertices[2 + equator_index]))
                ELSE LineNew(Vec2(vertices[2 + (equator_index % 4)],
                                  vertices[2 + ((equator_index + 1) % 4)]))]
    IN  IF (\E i \in 0..3 : ~wedges[i].ok) \/ (\E i \in 0..7 : ~faces[i].ok)
        THEN Panic
        ELSE [ok |-> TRUE, wedges |-> wedges, faces |-> faces, edges |-> edges]

\* Mutant: the two ring components exchanged.
wedge_local_to_global_swapped(index, local) ==
    LET ret == [i \in 0..5 |-> IF i < 2 THEN local[i] ELSE zero]
        a_index == 2 + (index % 4)
        b_index == 2 + ((index + 1) % 4)
        ret_a == [ret EXCEPT ![a_index] = local[3]]
    IN  [ret_a EXCEPT ![b_index] = local[2]]

\* Mutant: the second ring vertex of the last wedge taken to be the wedge's
\* first one instead of wrapping around to ring vertex 0.
wedge_local_to_global_no_wrap(index, local) ==
    LET ret == [i \in 0..5 |-> IF i < 2 THEN local[i] ELSE zero]
        a_index == 2 + (index % 4)
        b_index == IF index + 1 < 4 THEN 2 + index + 1 ELSE a_index
        ret_a == [ret EXCEPT ![a_index] = local[2]]
    IN  [ret_a EXCEPT ![b_index] = local[3]]

wedge_barycentric_local_to_global(index, local) ==
    LET ret == [i \in 0..5 |-> IF i < 2 THEN local[i] ELSE zero]
        a_index == 2 + (index % 4)
        b_index == 2 + ((index + 1) % 4)
        ret_a == [ret EXCEPT ![a_index] = local[2]]
    IN  [ret_a EXCEPT ![b_index] = local[3]]

\* Mutant: the pole component placed at the other pole.
face_local_to_global_other_pole(index, local) ==
    LET ret_p == [Vec6Zero EXCEPT ![1 - (index \div 4)] = local[0]]
        ret_a == [ret_p EXCEPT ![2 + (index % 4)] = local[1]]
    IN  [ret_a EXCEPT ![2 + ((index + 1) % 4)] = local[2]]

face_barycentric_local_to_global(index, local) ==
    LET ret_p == [Vec6Zero EXCEPT ![index \div 4] = local[0]]
        ret_a == [ret_p EXCEPT ![2 + (index % 4)] = local[1]]
    IN  [ret_a EXCEPT ![2 + ((index + 1) % 4)] = local[2]]

\* Mutant: a ring edge's second component placed without wrapping around,
\* so that ring edge 3 puts both components on its first vertex.
edge_local_to_global_no_wrap(index, local) ==
    LET pole_index == index \div 4
        equator_index == index % 4
    IN  IF pole_index < 2
        THEN LET ret_a == [Vec6Zero EXCEPT ![pole_index] = local[0]]
             IN  [ret_a EXCEPT ![2 + equator_index] = local[1]]
        ELSE LET ret_a == [Vec6Zero EXCEPT ![2 + equator_index] = local[0]]
             IN  [ret_a EXCEPT ![IF equator_index + 1 < 4 THEN 2 + equator_index + 1
                                 ELSE 2 + equator_index] = local[1]]

\* Mutant: on a pole edge the two local components are placed the other
\* way round.
edge_local_to_global_pole_swapped(index, local) ==
    LET pole_index == index \div 4
        equator_index == index % 4
    IN  IF pole_index < 2
        THEN [i \in 0..5 |-> IF i = pole_index THEN local[1]
                             ELSE IF i = 2 + equator_index THEN local[0]
                             ELSE zero]
        ELSE [i \in 0..5 |-> IF i = 2 + ((equator_index + 1) % 4) THEN local[1]
                             ELSE IF i = 2 + equator_index THEN local[0]
                             ELSE zero]

edge_barycentric_local_to_global(index, local) ==
    LET pole_index == index \div 4
        equator_index == index % 4
    IN  IF pole_index < 2
        THEN LET ret_a == [Vec6Zero EXCEPT ![pole_index] = local[0]]
             IN  [ret_a EXCEPT ![2 + equator_index] = local[1]]
        ELSE LET ret_a == [Vec6Zero EXCEPT ![2 + equator_index] = local[0]]
             IN  [ret_a EXCEPT ![2 + ((equator_index + 1) % 4)] = local[1]]

\* Mutant: a non-positive ring component marks the pole edge to its own
\* ring vertex instead of the other one.
MarkEdgesSameVertex(face_index, barycentric_local, edges_to_check) ==
    LET m0 == IF RLe(barycentric_local[0], zero)
              THEN [edges_to_check EXCEPT ![8 + (face_index % 4)] = TRUE]
              ELSE edges_to_check
        pole_index == face_index \div 4
        Same(equator_vertex_index) == ((face_index % 4) + equator_vertex_index) % 4
        m1 == IF RLe(barycentric_local[1], zero)
              THEN [m0 EXCEPT ![pole_index * 4 + Same(0)] = TRUE]
              ELSE m0
    IN  IF RLe(barycentric_local[2], zero)
        THEN [m1 EXCEPT ![pole_index * 4 + Same(1)] = TRUE]
        ELSE m1

\* Lines 171-185: the edges a face whose projection is not clean marks.
\* Mutant: a component that is exactly zero marks nothing (< for <=).
MarkEdgesStrict(face_index, barycentric_local, edges_to_check) ==
    LET m0 == IF RLt(barycentric_local[0], zero)
              THEN [edges_to_check EXCEPT ![8 + (face_index % 4)] = TRUE]
              ELSE edges_to_check
        pole_index == face_index \div 4
        Other(equator_vertex_index) ==
            ((face_index % 4) + (1 - equator_vertex_index)) % 4
        m1 == IF RLt(barycentric_local[1], zero)
              THEN [m0 EXCEPT ![pole_index * 4 + Other(0)] = TRUE]
              ELSE m0
    IN  IF RLt(barycentric_local[2], zero)
        THEN [m1 EXCEPT ![pole_index * 4 + Other(1)] = TRUE]
        ELSE m1

MarkEdges(face_index, barycentric_local, edges_to_check) ==
    LET m0 == IF RLe(barycentric_local[0], zero)
              THEN [edges_to_check EXCEPT ![8 + (face_index % 4)] = TRUE]
              ELSE edges_to_check
        pole_index == face_index \div 4
        Other(equator_vertex_index) ==
            ((face_index % 4) + (1 - equator_vertex_index)) % 4
        m1 == IF RLe(barycentric_local[1], zero)
              THEN [m0 EXCEPT ![pole_index * 4 + Other(0)] = TRUE]
              ELSE m0
    IN  IF RLe(barycentric_local[2], zero)
        THEN [m1 EXCEPT ![pole_index * 4 + Other(1)] = TRUE]
        ELSE m1

\* Lines 156-187: the loop `for pole in 0..2` of one wedge, from `pole` on.
\* st carries edges_to_check, best and the faces probed so far.
RECURSIVE PoleLoop(_, _, _, _, _, _)
PoleLoop(self, pt, wedge_index, wedge_local, pole, st) ==
    IF pole = 2 THEN [returned |-> FALSE, st |-> st]
    ELSE IF RLe(wedge_local[pole], zero)
    THEN LET other_pole == 1 - pole
             face_index == (other_pole * 4) + wedge_index
             barycentric_local == TriangleProject(self.faces[face_index], pt)
             probed == Append(st.probed, face_index)
         IN  IF RGe(VMin(barycentric_local), zero)
             THEN [returned |-> TRUE,
                   res |-> [ret |-> face_barycentric_local_to_global(
                                        face_index, barycentric_local),
                            path |-> "face", index |-> face_index,
                            edges_to_check |-> st.edges_to_check,
                            probed |-> probed, wedges |-> wedge_index + 1]]
             ELSE PoleLoop(self, pt, wedge_index, wedge_local, pole + 1,
                           [st EXCEPT !.edges_to_check =
                                          MarkEdges(face_index, barycentric_local, @),
                                      !.probed = probed])
    ELSE PoleLoop(self, pt, wedge_index, wedge_local, pole + 1, st)

\* Mutant: the clamped vector returned without renormalising it.
FallbackNoRenormalise(st) ==
    IF ~st.best.some
    THEN [ret |-> <<>>, path |-> "panic", index |-> 0,
          edges_to_check |-> st.edges_to_check, probed |-> st.probed, wedges |-> 4]
    ELSE [ret |-> ClampNegative(st.best.val[1]),
          path |-> "fallback", index |-> 0,
          edges_to_check |-> st.edges_to_check, probed |-> st.probed,
          wedges |-> 4]

\* Mutant: the division is not guarded by `if sum > zero()`.
FallbackUnguarded(st) ==
    IF ~st.best.some
    THEN [ret |-> <<>>, path |-> "panic", index |-> 0,
          edges_to_check |-> st.edges_to_check, probed |-> st.probed, wedges |-> 4]
    ELSE LET best == ClampNegative(st.best.val[1])
             sum == VSum(best)
         IN  [ret |-> VDivS(best, sum),
              path |-> "fallback", index |-> 0,
              edges_to_check |-> st.edges_to_check, probed |-> st.probed,
              wedges |-> 4]

\* Lines 193-207: no edge was marked; clamp and renormalise the best wedge.
Fallback(st) ==
    IF ~st.best.some
    THEN [ret |-> <<>>, path |-> "panic", index |-> 0,
          edges_to_check |-> st.edges_to_check, probed |-> st.probed, wedges |-> 4]
    ELSE LET best == ClampNegative(st.best.val[1])
             sum == VSum(best)
         IN  [ret |-> IF RGt(sum, zero) THEN VDivS(best, sum) ELSE best,
              path |-> "fallback", index |-> 0,
              edges_to_check |-> st.edges_to_check, probed |-> st.probed,
              wedges |-> 4]

\* Mutant: a later edge at the same distance replaces the best (>= for >).
RECURSIVE EdgeLoopLastWins(_, _, _, _, _)
EdgeLoopLastWins(self, pt, edge_index, st, best) ==
    IF edge_index = 12
    THEN IF ~best.some
         THEN [ret |-> <<>>, path |-> "panic", index |-> 0,
               edges_to_check |-> st.edges_to_check, probed |-> st.probed,
               wedges |-> 4]
         ELSE [ret |-> best.val[1], path |-> "edge", index |-> best.val[3],
               edges_to_check |-> st.edges_to_check, probed |-> st.probed,
               wedges |-> 4, evaluated |-> best.val[4]]
    ELSE IF ~st.edges_to_check[edge_index]
    THEN EdgeLoopLastWins(self, pt, edge_index + 1, st, best)
    ELSE LET edge == self.edges[edge_index]
             barycentric_local == LineClippingProject(edge, pt)[1]
             distance == NormSquared(VSub(LineBaryToPoint(edge, barycentric_local), pt))
             evaluated == IF best.some THEN Append(best.val[4], edge_index)
                          ELSE <<edge_index>>
         IN  IF (IF best.some THEN RGe(best.val[2], distance) ELSE TRUE)
             THEN EdgeLoopLastWins(self, pt, edge_index + 1, st,
                           Some(<<edge_barycentric_local_to_global(
                                      edge_index, barycentric_local),
                                  distance, edge_index, evaluated>>))
             ELSE EdgeLoopLastWins(self, pt, edge_index + 1, st,
                           Some([best.val EXCEPT ![4] = evaluated]))

\* Lines 208-225: the nearest of the marked edges.  best is
\* Some(<<global barycentric, distance, edge index, edges evaluated so far>>);
\* the result of the edge path carries the edges evaluated, in order.
RECURSIVE EdgeLoop(_, _, _, _, _)
EdgeLoop(self, pt, edge_index, st, best) ==
    IF edge_index = 12
    THEN IF ~best.some
         THEN [ret |-> <<>>, path |-> "panic", index |-> 0,
               edges_to_check |-> st.edges_to_check, probed |-> st.probed,
               wedges |-> 4]
         ELSE [ret |-> best.val[1], path |-> "edge", index |-> best.val[3],
               edges_to_check |-> st.edges_to_check, probed |-> st.probed,
               wedges |-> 4, evaluated |-> best.val[4]]
    ELSE IF ~st.edges_to_check[edge_index]
    THEN EdgeLoop(self, pt, edge_index + 1, st, best)
    ELSE LET edge == self.edges[edge_index]
             barycentric_local == LineClippingProject(edge, pt)[1]
             distance == NormSquared(VSub(LineBaryToPoint(edge, barycentric_local), pt))
             evaluated == IF best.some THEN Append(best.val[4], edge_index)
                          ELSE <<edge_index>>
         IN  IF (IF best.some THEN RGt(best.val[2], distance) ELSE TRUE)
             THEN EdgeLoop(self, pt, edge_index + 1, st,
                           Some(<<edge_barycentric_local_to_global(
                                      edge_index, barycentric_local),
                                  distance, edge_index, evaluated>>))
             ELSE EdgeLoop(self, pt, edge_index + 1, st,
                           Some([best.val EXCEPT ![4] = evaluated]))

\* Mutant: the first wedge is not retained as best (unwrap_or(false)).
RECURSIVE WedgeLoopKeepsNoFirst(_, _, _, _)
WedgeLoopKeepsNoFirst(self, pt, wedge_index, st) ==
    IF wedge_index = 4
    THEN IF \A i \in 0..11 : ~st.edges_to_check[i]
         THEN Fallback(st)
         ELSE EdgeLoop(self, pt, 0, st, None)
    ELSE LET barycentric_local == TetrahedronProject(self.wedges[wedge_index], pt)
             barycentric_local_min == VMin(barycentric_local)
         IN  IF RGe(barycentric_local_min, zero)
             THEN [ret |-> wedge_barycentric_local_to_global(
                               wedge_index, barycentric_local),
                   path |-> "wedge", index |-> wedge_index,
                   edges_to_check |-> st.edges_to_check, probed |-> st.probed,
                   wedges |-> wedge_index + 1]
             ELSE LET better == IF st.best.some
                                THEN RLt(st.best.val[2], barycentric_local_min)
                                ELSE FALSE
                      st1 == IF better
                             THEN [st EXCEPT !.best =
                                     Some(<<wedge_barycentric_local_to_global(
                                                wedge_index, barycentric_local),
                                            barycentric_local_min>>)]
                             ELSE st
                      r == PoleLoop(self, pt, wedge_index, barycentric_local, 0, st1)
                  IN  IF r.returned THEN r.res
                      ELSE WedgeLoopKeepsNoFirst(self, pt, wedge_index + 1, r.st)


\* Mutant: a point on the boundary of a wedge is not inside it (> for >=).
RECURSIVE WedgeLoopStrictInside(_, _, _, _)
WedgeLoopStrictInside(self, pt, wedge_index, st) ==
    IF wedge_index = 4
    THEN IF \A i \in 0..11 : ~st.edges_to_check[i]
         THEN Fallback(st)
         ELSE EdgeLoop(self, pt, 0, st, None)
    ELSE LET barycentric_local == TetrahedronProject(self.wedges[wedge_index], pt)
             barycentric_local_min == VMin(barycentric_local)
         IN  IF RGt(barycentric_local_min, zero)
             THEN [ret |-> wedge_barycentric_local_to_global(
                               wedge_index, barycentric_local),
                   path |-> "wedge", index |-> wedge_index,
                   edges_to_check |-> st.edges_to_check, probed |-> st.probed,
                   wedges |-> wedge_index + 1]
             ELSE LET better == IF st.best.some
                                THEN RLt(st.best.val[2], barycentric_local_min)
                                ELSE TRUE
                      st1 == IF better
                             THEN [st EXCEPT !.best =
                                     Some(<<wedge_barycentric_local_to_global(
                                                wedge_index, barycentric_local),
                                            barycentric_local_min>>)]
                             ELSE st
                      r == PoleLoop(self, pt, wedge_index, barycentric_local, 0, st1)
                  IN  IF r.returned THEN r.res
                      ELSE WedgeLoopStrictInside(self, pt, wedge_index + 1, r.st)
\* Lines 130-188: the loop over the wedges from wedge_index on, then the rest
\* of project.  Returns [ret, path, index, edges_to_check, probed, wedges]:
\* the vector returned, the return path taken ("wedge", "face", "fallback",
\* "edge" or "panic"), the index of the wedge, face or edge returned, the
\* marks, the faces probed in order and the number of wedges scanned.
RECURSIVE WedgeLoop(_, _, _, _)
WedgeLoop(self, pt, wedge_index, st) ==
    IF wedge_index = 4
    THEN IF \A i \in 0..11 : ~st.edges_to_check[i]
         THEN Fallback(st)
         ELSE EdgeLoop(self, pt, 0, st, None)
    ELSE LET barycentric_local == TetrahedronProject(self.wedges[wedge_index], pt)
             barycentric_local_min == VMin(barycentric_local)
         IN  IF RGe(barycentric_local_min, zero)
             THEN [ret |-> wedge_barycentric_local_to_global(
                               wedge_index, barycentric_local),
                   path |-> "wedge", index |-> wedge_index,
                   edges_to_check |-> st.edges_to_check, probed |-> st.probed,
                   wedges |-> wedge_index + 1]
             ELSE LET better == IF st.best.some
                                THEN RLt(st.best.val[2], barycentric_local_min)
                                ELSE TRUE
                      st1 == IF better
                             THEN [st EXCEPT !.best =
                                     Some(<<wedge_barycentric_local_to_global(
                                                wedge_index, barycentric_local),
                                            barycentric_local_min>>)]
                             ELSE st
                      r == PoleLoop(self, pt, wedge_index, barycentric_local, 0, st1)
                  IN  IF r.returned THEN r.res
                      ELSE WedgeLoop(self, pt, wedge_index + 1, r.st)

OctahedronProject(self, pt) ==
    WedgeLoop(self, pt, 0,
              [edges_to_check |-> [i \in 0..11 |-> FALSE], best |-> None,
               probed |-> <<>>])

(***************************************************************************)
(* Inputs of the model: query points on a grid of rationals and a family   *)
(* of vertex lists.                                                        *)
(***************************************************************************)
\* Query coordinates are k / GridDen for k in -GridMax..GridMax.
GridMax == 4
GridDen == 2

Pt(x, y, z) == Vec3(Int2R(x), Int2R(y), Int2R(z))

GridCoords == {Norm(k, GridDen) : k \in -GridMax..GridMax}
Grid == {Vec3(x, y, z) : x \in GridCoords, y \in GridCoords, z \in GridCoords}

Vec6(a, b, c, d, e, f) ==
    [i \in 0..5 |-> IF i = 0 THEN a ELSE IF i = 1 THEN b ELSE IF i = 2 THEN c
                    ELSE IF i = 3 THEN d ELSE IF i = 4 THEN e ELSE f]

\* The regular octahedron: poles (0,0,1), (0,0,-1), ring (1,0,0), (0,1,0),
\* (-1,0,0), (0,-1,0).
Regular == Vec6(Pt(0, 0, 1), Pt(0, 0, -1),
                Pt(1, 0, 0), Pt(0, 1, 0), Pt(-1, 0, 0), Pt(0, -1, 0))
\* Convex, irregular.
Skew == Vec6(Pt(1, 0, 1), Pt(0, 0, -1),
             Pt(2, 0, 0), Pt(0, 1, 0), Pt(-1, 0, 0), Pt(0, -1, 0))
\* The pole axis passes outside the equatorial ring: not convex.
OffAxis == Vec6(Pt(0, 0, 1), Pt(0, 0, -1),
                Pt(1, 0, 0), Pt(2, 1, 0), Pt(3, 0, 0), Pt(2, -1, 0))
\* A ring with two reflex corners: not convex.
Star == Vec6(Pt(0, 0, 1), Pt(0, 0, -1),
             Pt(3, 0, 0), Pt(1, 1, 0), Pt(0, 3, 0), Pt(-1, -1, 0))
\* Wedge 0 is flat (both poles and two ring vertices coplanar): degenerate.
Flat == Vec6(Pt(0, 0, 1), Pt(0, 0, -1),
             Pt(1, 0, 0), Pt(2, 0, 0), Pt(-1, 0, 0), Pt(0, -1, 0))

OctahedronInputs == {Regular, Skew, OffAxis, Star, Flat}

(***************************************************************************)
(* Gdep073e01State (gdep073e01.rs): the display driver wrapped in a        *)
(* typestate.  A wrapper value is [state, log]: its STATE type parameter   *)
(* and the operations issued to the wrapped driver so far, each with its   *)
(* result.  A state type is a sequence of type names, StateBusy<T> being   *)
(* "StateBusy" followed by T.                                              *)
(***************************************************************************)
StateUnknown == <<"StateUnknown">>
StateReset == <<"StateReset">>
StatePowerOff == <<"StatePowerOff">>
StateBusy(T) == <<"StateBusy">> \o T
StatePowerOn == <<"StatePowerOn">>

\* An iterator of the model that has not been constructed.
NotConstructed == [constructed |-> FALSE]

\* Gdep073e01State::new
Gdep073e01StateNew == [state |-> StateUnknown, log |-> <<>>]

\* self.display.<op>(..).await with result ok: the wrapped driver runs op.
DriverCall(self, op, ok) ==
    [self EXCEPT !.log = Append(@, [op |-> op, ok |-> ok])]

\* Mutant: an error keeps the state the wrapper had.
map_state_keeps_on_error(self, ret, new_state) ==
    [self EXCEPT !.state = IF ret THEN new_state ELSE @]

\* map_state_from_result(self, ret, f), new_state being f(self.state, result):
\* Ok gives a wrapper in that state, Err one in StateUnknown (carried by
\* the error value).
map_state_from_result(self, ret, new_state) ==
    IF ret THEN [self EXCEPT !.state = new_state]
    ELSE [self EXCEPT !.state = StateUnknown]

\* |StateBusy(x), _| x
Unbusy(s) == Tail(s)

reset(self, ok) ==
    map_state_from_result(DriverCall(self, "reset", ok), ok, StateReset)

init(self, ok) ==
    map_state_from_result(DriverCall(self, "init", ok), ok, StatePowerOff)

power_on_no_wait(self, ok) ==
    map_state_from_result(DriverCall(self, "power_on", ok), ok, StateBusy(StatePowerOn))

wait(self, ok) ==
    map_state_from_result(DriverCall(self, "wait_until_idle", ok), ok, Unbusy(self.state))

\* self.power_on_no_wait(spi).await?.wait().await
power_on(self, ok, ok_wait) ==
    LET busy == power_on_no_wait(self, ok)
    IN  IF ok THEN wait(busy, ok_wait) ELSE busy

power_off_no_wait(self, ok) ==
    map_state_from_result(DriverCall(self, "power_off", ok), ok, StateBusy(StatePowerOff))

power_off(self, ok, ok_wait) ==
    LET busy == power_off_no_wait(self, ok)
    IN  IF ok THEN wait(busy, ok_wait) ELSE busy

update_frame(self, ok) ==
    map_state_from_result(DriverCall(self, "update_frame", ok), ok, self.state)

display_frame_no_wait(self, ok) ==
    map_state_from_result(DriverCall(self, "display_frame", ok), ok, StateBusy(self.state))

display_frame(self, ok, ok_wait) ==
    LET busy == display_frame_no_wait(self, ok)
    IN  IF ok THEN wait(busy, ok_wait) ELSE busy

(***************************************************************************)
(* DisplayInterfaceAsync (displayinterface.rs).  An interface value holds  *)
(* its SINGLE_BYTE_WRITE parameter, the level of the DC pin, the writes    *)
(* the SPI bus saw during the latest call (each with the DC level it was   *)
(* made at and whether it succeeded), and the hardware's fault: fail = k   *)
(* makes the k-th pin or bus operation from now fail (0: none), failed     *)
(* tells which kind of operation did.  pc, call and ret are the caller's   *)
(* view: the call made and the Result it got.                              *)
(***************************************************************************)
\* ArrayVec::<u8, 32>
BufferCapacity == 32

\* DisplayInterfaceAsync::new
DisplayInterfaceAsyncNew(single_byte_write) ==
    [constructed |-> TRUE, SINGLE_BYTE_WRITE |-> single_byte_write,
     dc |-> "unset", spi |-> <<>>, fail |-> 0, failed |-> "none",
     pc |-> "idle", call |-> <<>>, ret |-> <<>>]

IoOk(h) == [ok |-> TRUE, err |-> "none", h |-> h]
IoErr(err, h) == [ok |-> FALSE, err |-> err, h |-> h]

\* self.dc.set_low() / self.dc.set_high()
SetDc(h, level) ==
    IF h.fail = 1
    THEN IoErr("DC", [h EXCEPT !.fail = 0, !.failed = "dc"])
    ELSE IoOk([h EXCEPT !.dc = level, !.fail = IF @ = 0 THEN 0 ELSE @ - 1])

\* spi.write(bytes).await
SpiWrite(h, bytes) ==
    IF h.fail = 1
    THEN IoErr("SPI", [h EXCEPT !.fail = 0, !.failed = "spi",
                                !.spi = Append(@, [dc |-> h.dc, bytes |-> bytes,
                                                   ok |-> FALSE])])
    ELSE IoOk([h EXCEPT !.fail = IF @ = 0 THEN 0 ELSE @ - 1,
                        !.spi = Append(@, [dc |-> h.dc, bytes |-> bytes,
                                           ok |-> TRUE])])

\* DisplayInterfaceAsync::write, built for a target that is not Linux
write(h, bytes) == SpiWrite(h, bytes)

\* Mutant: the buffer left at the end of the input is not written.
RECURSIVE write_iter_no_flush(_, _, _)
write_iter_no_flush(h, bytes, buffer) ==
    IF bytes = <<>> THEN IoOk(h)
    ELSE IF Len(buffer) = BufferCapacity
    THEN LET w == SpiWrite(h, buffer)
         IN  IF ~w.ok THEN w
             ELSE write_iter_no_flush(w.h, Tail(bytes), <<Head(bytes)>>)
    ELSE write_iter_no_flush(h, Tail(bytes), Append(buffer, Head(bytes)))

\* DisplayInterfaceAsync::write_iter, from the loop's current item on;
\* buffer is the ArrayVec.
RECURSIVE write_iter(_, _, _)
write_iter(h, bytes, buffer) ==
    IF bytes = <<>>
    THEN IF buffer # <<>> THEN SpiWrite(h, buffer) ELSE IoOk(h)
    ELSE IF Len(buffer) = BufferCapacity
    THEN LET w == SpiWrite(h, buffer)
         IN  IF ~w.ok THEN w
             ELSE write_iter(w.h, Tail(bytes), <<Head(bytes)>>)
    ELSE write_iter(h, Tail(bytes), Append(buffer, Head(bytes)))

\* for val in data { self.write(spi, &[val]).await.map_err(SPIError)?; }
RECURSIVE write_each(_, _)
write_each(h, bytes) ==
    IF bytes = <<>> THEN IoOk(h)
    ELSE LET w == write(h, <<Head(bytes)>>)
         IN  IF ~w.ok THEN w ELSE write_each(w.h, Tail(bytes))

\* DisplayInterfaceAsync::cmd; an error is DCError or SPIError
cmd(h, command) ==
    LET d == SetDc(h, "low")
    IN  IF ~d.ok THEN d ELSE write(d.h, <<command>>)

\* DisplayInterfaceAsync::data
data(h, bytes) ==
    LET d == SetDc(h, "high")
    IN  IF ~d.ok THEN d
        ELSE IF h.SINGLE_BYTE_WRITE THEN write_each(d.h, bytes)
        ELSE write(d.h, bytes)

\* DisplayInterfaceAsync::data_iter
data_iter(h, bytes) ==
    LET d == SetDc(h, "high")
    IN  IF ~d.ok THEN d
        ELSE IF h.SINGLE_BYTE_WRITE THEN write_each(d.h, bytes)
        ELSE write_iter(d.h, bytes, <<>>)

\* DisplayInterfaceAsync::cmd_with_data
cmd_with_data(h, command, bytes) ==
    LET c == cmd(h, command)
    IN  IF ~c.ok THEN c ELSE data(c.h, bytes)

(***************************************************************************)
(* SpectraPacker (spectra6.rs).  A packer value is [constructed, pixels,   *)
(* source, out, done]: what its source held when it was wrapped, what the  *)
(* source still holds, the bytes yielded so far and whether next has       *)
(* returned None.                                                          *)
(***************************************************************************)
\* enum Spectra6Color, by discriminant
Spectra6Color ==
    [Black |-> 0, White |-> 1, Yellow |-> 2, Red |-> 3, Blue |-> 5, Green |-> 6,
     Clean |-> 7]

Spectra6Colors == {Spectra6Color[n] : n \in DOMAIN Spectra6Color}

\* u8 << n and u8 | u8
Shl8(v, n) == (v * (2 ^ n)) % 256

RECURSIVE BitOr(_, _)
BitOr(a, b) ==
    IF a = 0 THEN b
    ELSE IF b = 0 THEN a
    ELSE 2 * BitOr(a \div 2, b \div 2) + (IF a % 2 = 1 \/ b % 2 = 1 THEN 1 ELSE 0)

\* SpectraPacker(pixels.into_iter())
SpectraPacker(pixels) ==
    [constructed |-> TRUE, pixels |-> pixels, source |-> pixels, out |-> <<>>,
     done |-> FALSE]

\* Mutant: a missing right pixel is padded with Black.
SpectraPackerNextPadsBlack(self) ==
    IF self.source = <<>> THEN [self EXCEPT !.done = TRUE]
    ELSE LET left == Head(self.source)
             rest == Tail(self.source)
             right == IF rest = <<>> THEN Spectra6Color.Black ELSE Head(rest)
         IN  [self EXCEPT !.source = IF rest = <<>> THEN rest ELSE Tail(rest),
                          !.out = Append(@, BitOr(Shl8(left, 4), right))]

\* SpectraPacker::next: the packer after the call; the item returned is the
\* byte appended to out, or None (done).
SpectraPackerNext(self) ==
    IF self.source = <<>> THEN [self EXCEPT !.done = TRUE]
    ELSE LET left == Head(self.source)
             rest == Tail(self.source)
             right == IF rest = <<>> THEN Spectra6Color.White ELSE Head(rest)
         IN  [self EXCEPT !.source = IF rest = <<>> THEN rest ELSE Tail(rest),
                          !.out = Append(@, BitOr(Shl8(left, 4), right))]

(***************************************************************************)
(* ForwardErrorDiffusion (dither.rs) over the palette                      *)
(* RgbColorToBinaryColor<Rgb888>, whose quantization error is one i16.     *)
(* The errors of the model stay within 16 bits: |error| <= 382 and a cell  *)
(* of the buffer holds at most divisor * 382.                              *)
(***************************************************************************)
\* impl ForwardErrorDiffusionMethod: get_max_y_target, get_divisor and
\* get_targets as (dx, dy, mul)
FloydSteinberg ==
    [max_y_target |-> 1, divisor |-> 16,
     targets |-> << <<1, 0, 7>>, <<-1, 1, 3>>, <<0, 1, 5>>, <<1, 1, 1>> >>]

JarvisJudiceAndNinke ==
    [max_y_target |-> 2, divisor |-> 48,
     targets |-> << <<1, 0, 7>>, <<2, 0, 5>>,
                    <<-2, 1, 3>>, <<-1, 1, 5>>, <<0, 1, 7>>, <<1, 1, 5>>, <<2, 1, 3>>,
                    <<-2, 2, 1>>, <<-1, 2, 3>>, <<0, 2, 5>>, <<1, 2, 3>>, <<2, 2, 1>> >>]

Atkinson ==
    [max_y_target |-> 2, divisor |-> 8,
     targets |-> << <<1, 0, 1>>, <<2, 0, 1>>,
                    <<-1, 1, 1>>, <<0, 1, 1>>, <<1, 1, 1>>,
                    <<0, 2, 1>> >>]

\* i16 / i16: the quotient rounded towards zero
TruncDiv(a, b) == IF a >= 0 THEN a \div b ELSE -((-a) \div b)

\* RgbColorToBinaryColor::<Rgb888>::get_closest(source, error), source being
\* <<r, g, b>>
get_closest(source, error) ==
    LET total == source[1] + source[2] + source[3] + error
        max == 255 + 255 + 255
    IN  IF total > max \div 2
        THEN [target |-> "On", error |-> total - max]
        ELSE [target |-> "Off", error |-> total]

\* ForwardErrorDiffusion::new(palette, method, source, width).  pixels,
\* consumed and errors record, per pixel taken from the source, its colour,
\* the error read from the buffer for it and the error it produced;
\* in_range tells that every index used so far was inside the buffer.
ForwardErrorDiffusionNew(method, width) ==
    [constructed |-> TRUE, method |-> method, width |-> width, x |-> 0, y |-> 0,
     diffusion |-> [i \in 0..(width * (method.max_y_target + 1) - 1) |-> 0],
     out |-> <<>>, done |-> FALSE,
     pixels |-> <<>>, consumed |-> <<>>, errors |-> <<>>, in_range |-> TRUE]

\* Mutant: the ring has max_y_target rows.
get_diffusion_index_short_ring(self, x, y) ==
    x + (self.width * (y % self.method.max_y_target))

get_diffusion_index(self, x, y) ==
    x + (self.width * (y % (self.method.max_y_target + 1)))

\* Lines 168-175: the loop over the targets from the k-th on.
RECURSIVE Spread(_, _, _)
Spread(self, error, k) ==
    IF k > Len(self.method.targets) THEN self
    ELSE LET dx == self.method.targets[k][1]
             dy == self.method.targets[k][2]
             mul == self.method.targets[k][3]
             tx == self.x + dx
             ty == self.y + dy
         IN  IF tx >= 0 /\ tx < self.width
             THEN LET tindex == get_diffusion_index(self, tx, ty)
                  IN  IF tindex \in DOMAIN self.diffusion
                      THEN Spread([self EXCEPT !.diffusion[tindex] = @ + error * mul],
                                  error, k + 1)
                      ELSE [self EXCEPT !.in_range = FALSE, !.done = TRUE]
             ELSE Spread(self, error, k + 1)

\* Lines 178-181: while self.x >= self.width
RECURSIVE Wrap(_)
Wrap(self) ==
    IF self.x >= self.width
    THEN Wrap([self EXCEPT !.x = @ - self.width, !.y = @ + 1])
    ELSE self

\* ForwardErrorDiffusion::next, the source's next() having returned item
\* (None, or Some of a colour): the iterator after the call; the item
\* returned is the colour appended to out, or None (done).
ForwardErrorDiffusionNext(self, item) ==
    IF ~item.some THEN [self EXCEPT !.done = TRUE]
    ELSE LET source_color == item.val
             index == get_diffusion_index(self, self.x, self.y)
         IN  IF index \notin DOMAIN self.diffusion
             THEN [self EXCEPT !.in_range = FALSE, !.done = TRUE]
             ELSE LET source_error == self.diffusion[index]
                      closest == get_closest(source_color,
                                     TruncDiv(source_error, self.method.divisor))
                      taken == [self EXCEPT !.diffusion[index] = 0,
                                            !.pixels = Append(@, source_color),
                                            !.consumed = Append(@, source_error),
                                            !.errors = Append(@, closest.error)]
                      spread == Spread(taken, closest.error, 1)
                  IN  IF ~spread.in_range THEN spread
                      ELSE Wrap([spread EXCEPT !.x = @ + 1,
                                               !.out = Append(@, closest.target)])

(***************************************************************************)
(* State: one projector and one call of it at a time.                      *)
(***************************************************************************)
\* The vertex list with the equatorial ring rotated by r.
Rotate(vs, r) == [i \in 0..5 |-> IF i < 2 THEN vs[i] ELSE vs[2 + ((i - 2 + r) % 4)]]

VARIABLES
    vertices,   \* the vertex list the projector was constructed from
    projector,  \* the projector's fields, or Panic
    relabelled, \* the projectors constructed from the same vertices with the
                \* ring rotated by 1, 2 and 3 (the relabelling test of the
                \* specification's section 8)
    pt,         \* the query point of the call in progress
    res,        \* what the call returned
    pc,         \* "start", "ready", "returned" or "panicked"
    display,    \* the Gdep073e01State wrapper: its typestate and the
                \* operations issued to the display so far, with their results
    dither,     \* the ForwardErrorDiffusion iterator
    packer,     \* the SpectraPacker iterator
    interface   \* the DisplayInterfaceAsync: the DC pin and the SPI bus

peripherals == <<display, dither, packer, interface>>

vars == <<vertices, projector, relabelled, pt, res, pc,
          display, dither, packer, interface>>

\* Nothing is constructed yet but the display wrapper, which the firmware
\* builds once at start-up.
InitPeripherals ==
    /\ display = Gdep073e01StateNew
    /\ dither = NotConstructed
    /\ packer = NotConstructed
    /\ interface = NotConstructed

Init ==
    /\ vertices = <<>>
    /\ projector = Panic
    /\ relabelled = <<>>
    /\ pt = <<>>
    /\ res = <<>>
    /\ pc = "start"
    /\ InitPeripherals

\* OctahedronProjector::new(vertices)
New(vs) ==
    /\ pc = "start"
    /\ vertices' = vs
    /\ projector' = OctahedronNew(vs)
    /\ relabelled' = [r \in 1..3 |-> OctahedronNew(Rotate(vs, r))]
    /\ pc' = IF projector'.ok THEN "ready" ELSE "panicked"
    /\ UNCHANGED <<pt, res>>
    /\ UNCHANGED peripherals

\* OctahedronProjector::project(pt)
Project(p) ==
    /\ pc = "ready"
    /\ pt' = p
    /\ res' = OctahedronProject(projector, p)
    /\ pc' = "returned"
    /\ UNCHANGED <<vertices, projector, relabelled>>
    /\ UNCHANGED peripherals

\* The caller takes the result; the projector is ready for the next call.
Return ==
    /\ pc = "returned"
    /\ pt' = <<>>
    /\ res' = <<>>
    /\ pc' = "ready"
    /\ UNCHANGED <<vertices, projector, relabelled>>
    /\ UNCHANGED peripherals

(***************************************************************************)
(* The same caller with a ClippingTriangleProjector.                       *)
(***************************************************************************)
\* A right triangle in the plane z = 0.
RightTriangle == Vec3(Pt(0, 0, 0), Pt(1, 0, 0), Pt(0, 1, 0))
\* An obtuse angle (135 degrees) at vertex 0.
ObtuseTriangle == Vec3(Pt(0, 0, 0), Pt(2, 0, 0), Pt(-1, 1, 0))
\* An equilateral triangle in the plane x + y + z = 1.
TiltedTriangle == Vec3(Pt(1, 0, 0), Pt(0, 1, 0), Pt(0, 0, 1))
\* Three collinear points: degenerate.
CollinearTriangle == Vec3(Pt(0, 0, 0), Pt(1, 1, 0), Pt(2, 2, 0))

TriangleInputs == {RightTriangle, ObtuseTriangle, TiltedTriangle, CollinearTriangle}

\* ClippingTriangleProjector::new(vertices)
NewTriangle(vs) ==
    /\ pc = "start"
    /\ vertices' = vs
    /\ projector' = ClippingTriangleNew(vs)
    /\ pc' = IF projector'.ok THEN "ready" ELSE "panicked"
    /\ UNCHANGED <<relabelled, pt, res>>
    /\ UNCHANGED peripherals

\* ClippingTriangleProjector::clipping_project(pt)
ClippingProject(p) ==
    /\ pc = "ready"
    /\ pt' = p
    /\ res' = ClippingTriangleClippingProject(projector, p)
    /\ pc' = "returned"
    /\ UNCHANGED <<vertices, projector, relabelled>>
    /\ UNCHANGED peripherals

NextTriangle ==
    \/ \E vs \in TriangleInputs : NewTriangle(vs)
    \/ \E p \in Grid : ClippingProject(p)
    \/ Return

SpecTriangle == Init /\ [][NextTriangle]_vars

(***************************************************************************)
(* The same caller with a LineProjector.  res holds the operation called   *)
(* and what it returned.                                                   *)
(***************************************************************************)
\* A segment along the x axis.
AxisSegment == Vec2(Pt(0, 0, 0), Pt(2, 0, 0))
\* A segment in a general direction that does not start at the origin.
SkewSegment == Vec2(Pt(1, 0, -1), Pt(-1, 1, 1))
\* Both ends are the same point: zero length.
PointSegment == Vec2(Pt(1, 1, 0), Pt(1, 1, 0))

LineInputs == {AxisSegment, SkewSegment, PointSegment}

\* The coordinate pairs handed to bary_to_point.
Pairs == {Vec2(x, y) : x \in GridCoords, y \in GridCoords}

\* LineProjector::new(vertices)
NewLine(vs) ==
    /\ pc = "start"
    /\ vertices' = vs
    /\ projector' = LineNew(vs)
    /\ pc' = "ready"
    /\ UNCHANGED <<relabelled, pt, res>>
    /\ UNCHANGED peripherals

\* LineProjector::project(pt)
LineProjectCall(p) ==
    /\ pc = "ready"
    /\ pt' = p
    /\ res' = [op |-> "project", ret |-> LineProject(projector, p)]
    /\ pc' = "returned"
    /\ UNCHANGED <<vertices, projector, relabelled>>
    /\ UNCHANGED peripherals

\* LineProjector::clipping_project(pt)
LineClippingProjectCall(p) ==
    /\ pc = "ready"
    /\ pt' = p
    /\ res' = [op |-> "clipping_project", ret |-> LineClippingProject(projector, p)]
    /\ pc' = "returned"
    /\ UNCHANGED <<vertices, projector, relabelled>>
    /\ UNCHANGED peripherals

\* LineProjector::bary_to_point(barycentric_coords)
LineBaryToPointCall(c) ==
    /\ pc = "ready"
    /\ pt' = c
    /\ res' = [op |-> "bary_to_point", ret |-> LineBaryToPoint(projector, c)]
    /\ pc' = "returned"
    /\ UNCHANGED <<vertices, projector, relabelled>>
    /\ UNCHANGED peripherals

NextLine ==
    \/ \E vs \in LineInputs : NewLine(vs)
    \/ \E p \in Grid : LineProjectCall(p)
    \/ \E p \in Grid : LineClippingProjectCall(p)
    \/ \E c \in Pairs : LineBaryToPointCall(c)
    \/ Return

SpecLine == Init /\ [][NextLine]_vars

(***************************************************************************)
(* The same caller with the unclamped projectors: a                        *)
(* ClippingTriangleProjector used through project and bary_to_point, and a *)
(* TetrahedronProjector.  The number of vertices tells which one was       *)
(* constructed.                                                            *)
(***************************************************************************)
UnitTetrahedron == Vec4(Pt(0, 0, 0), Pt(1, 0, 0), Pt(0, 1, 0), Pt(0, 0, 1))
\* Wedge 0 of the irregular octahedron.
SkewTetrahedron == Vec4(Pt(1, 0, 1), Pt(0, 0, -1), Pt(2, 0, 0), Pt(0, 1, 0))
\* Four points of the plane z = 0: degenerate.
CoplanarTetrahedron == Vec4(Pt(0, 0, 0), Pt(1, 0, 0), Pt(0, 1, 0), Pt(1, 1, 0))

TetrahedronInputs == {UnitTetrahedron, SkewTetrahedron, CoplanarTetrahedron}

\* The coordinate vectors handed to TetrahedronProjector::bary_to_point:
\* three free coordinates and a fourth that makes the sum 1 (barycentric
\* coordinates) or 0 (where from_homogeneous has no point to return).
Quads == {Vec4(c[0], c[1], c[2], RSub(s, VSum(c))) : c \in Grid, s \in {zero, one}}

\* TetrahedronProjector::new(vertices)
NewTetrahedron(vs) ==
    /\ pc = "start"
    /\ vertices' = vs
    /\ projector' = TetrahedronNew(vs)
    /\ pc' = IF projector'.ok THEN "ready" ELSE "panicked"
    /\ UNCHANGED <<relabelled, pt, res>>
    /\ UNCHANGED peripherals

\* ClippingTriangleProjector::project(pt)
TriangleProjectCall(p) ==
    /\ pc = "ready" /\ Dim(vertices) = 3
    /\ pt' = p
    /\ res' = [op |-> "project", ret |-> ClippingTriangleProjectRaw(projector, p)]
    /\ pc' = "returned"
    /\ UNCHANGED <<vertices, projector, relabelled>>
    /\ UNCHANGED peripherals

\* ClippingTriangleProjector::bary_to_point(barycentric_coords)
TriangleBaryToPointCall(c) ==
    /\ pc = "ready" /\ Dim(vertices) = 3
    /\ pt' = c
    /\ res' = [op |-> "bary_to_point",
               ret |-> ClippingTriangleBaryToPoint(projector, c)]
    /\ pc' = "returned"
    /\ UNCHANGED <<vertices, projector, relabelled>>
    /\ UNCHANGED peripherals

\* TetrahedronProjector::project(pt)
TetrahedronProjectCall(p) ==
    /\ pc = "ready" /\ Dim(vertices) = 4
    /\ pt' = p
    /\ res' = [op |-> "project", ret |-> TetrahedronProject(projector, p)]
    /\ pc' = "returned"
    /\ UNCHANGED <<vertices, projector, relabelled>>
    /\ UNCHANGED peripherals

\* TetrahedronProjector::bary_to_point(barycentric_coords); the unwrap of
\* from_homogeneous panics when the coordinates sum to zero.
TetrahedronBaryToPointCall(c) ==
    /\ pc = "ready" /\ Dim(vertices) = 4
    /\ pt' = c
    /\ res' = [op |-> "bary_to_point", ret |-> TetrahedronBaryToPoint(projector, c)]
    /\ pc' = IF res'.ret.some THEN "returned" ELSE "panicked"
    /\ UNCHANGED <<vertices, projector, relabelled>>
    /\ UNCHANGED peripherals

NextAffine ==
    \/ \E vs \in TriangleInputs : NewTriangle(vs)
    \/ \E vs \in TetrahedronInputs : NewTetrahedron(vs)
    \/ \E p \in Grid : TriangleProjectCall(p)
    \/ \E c \in Grid : TriangleBaryToPointCall(c)
    \/ \E p \in Grid : TetrahedronProjectCall(p)
    \/ \E c \in Quads : TetrahedronBaryToPointCall(c)
    \/ Return

SpecAffine == Init /\ [][NextAffine]_vars

(***************************************************************************)
(* Several callers of project on one OctahedronProjector (&self).  Each    *)
(* call runs in steps: one step per iteration of the loop over the wedges, *)
(* then one step for the rest of the function.  pt, res and pc are         *)
(* functions of the caller here; res[c] holds the locals of c's call       *)
(* (edges_to_check, best, the loop index) and then what it returned.       *)
(***************************************************************************)
NumCallers == 2
Callers == 1..NumCallers

\* The octahedra shared by the callers: a convex one and one that reaches
\* the fallback.
ConcurrentInputs == {Regular, OffAxis}

\* The query points of the callers: inside, beyond a face, beside the ring
\* (where the second octahedron falls back) and above a pole.
Queries == {Pt(0, 0, 0), Pt(2, 2, 2), Pt(-2, 0, 0), Pt(0, 0, 2)}

\* Lines 128-129: the locals of a call as project starts.
NewFrame ==
    [edges_to_check |-> [i \in 0..11 |-> FALSE], best |-> None,
     probed |-> <<>>, wedge_index |-> 0]

\* Mutant: edges_to_check is one array shared by all calls.
FrameSharedMarks(c) ==
    [res[c] EXCEPT !.edges_to_check =
        [i \in 0..11 |-> \E d \in Callers : res[d].edges_to_check[i]]]

\* The locals of caller c's call: its own stack frame.
Frame(c) == res[c]

\* Lines 130-188: one iteration of the loop over the wedges, for wedge
\* st.wedge_index.
WedgeBody(self, p, st) ==
    LET wedge_index == st.wedge_index
        barycentric_local == TetrahedronProject(self.wedges[wedge_index], p)
        barycentric_local_min == VMin(barycentric_local)
    IN  IF RGe(barycentric_local_min, zero)
        THEN [returned |-> TRUE,
              res |-> [ret |-> wedge_barycentric_local_to_global(
                                   wedge_index, barycentric_local),
                       path |-> "wedge", index |-> wedge_index,
                       edges_to_check |-> st.edges_to_check,
                       probed |-> st.probed, wedges |-> wedge_index + 1]]
        ELSE LET better == IF st.best.some
                           THEN RLt(st.best.val[2], barycentric_local_min)
                           ELSE TRUE
                 st1 == IF better
                        THEN [st EXCEPT !.best =
                                Some(<<wedge_barycentric_local_to_global(
                                           wedge_index, barycentric_local),
                                       barycentric_local_min>>)]
                        ELSE st
                 r == PoleLoop(self, p, wedge_index, barycentric_local, 0, st1)
             IN  IF r.returned THEN r
                 ELSE [returned |-> FALSE,
                       st |-> [r.st EXCEPT !.wedge_index = wedge_index + 1]]

InitConcurrent ==
    /\ vertices \in ConcurrentInputs
    /\ projector = OctahedronNew(vertices)
    /\ relabelled = <<>>
    /\ pt = [c \in Callers |-> <<>>]
    /\ res = [c \in Callers |-> NewFrame]
    /\ pc = [c \in Callers |-> "idle"]
    /\ InitPeripherals

\* Caller c enters project(p).
Begin(c, p) ==
    /\ pc[c] = "idle"
    /\ pt' = [pt EXCEPT ![c] = p]
    /\ res' = [res EXCEPT ![c] = NewFrame]
    /\ pc' = [pc EXCEPT ![c] = "wedges"]
    /\ UNCHANGED <<vertices, projector, relabelled>>
    /\ UNCHANGED peripherals

\* One iteration of caller c's loop over the wedges.
WedgeStep(c) ==
    /\ pc[c] = "wedges"
    /\ \E r \in {WedgeBody(projector, pt[c], Frame(c))} :
           IF r.returned
           THEN /\ res' = [res EXCEPT ![c] = r.res]
                /\ pc' = [pc EXCEPT ![c] = "returned"]
           ELSE /\ res' = [res EXCEPT ![c] = r.st]
                /\ pc' = [pc EXCEPT ![c] =
                             IF r.st.wedge_index = 4 THEN "edges" ELSE "wedges"]
    /\ UNCHANGED <<vertices, projector, relabelled, pt>>
    /\ UNCHANGED peripherals

\* Lines 193-225 of caller c's call: the fallback or the marked edges.
Finish(c) ==
    /\ pc[c] = "edges"
    /\ LET st == Frame(c)
       IN  res' = [res EXCEPT ![c] =
                     IF \A i \in 0..11 : ~st.edges_to_check[i]
                     THEN Fallback(st)
                     ELSE EdgeLoop(projector, pt[c], 0, st, None)]
    /\ pc' = [pc EXCEPT ![c] = "returned"]
    /\ UNCHANGED <<vertices, projector, relabelled, pt>>
    /\ UNCHANGED peripherals

\* Caller c takes its result and may call again.
Take(c) ==
    /\ pc[c] = "returned"
    /\ pt' = [pt EXCEPT ![c] = <<>>]
    /\ res' = [res EXCEPT ![c] = NewFrame]
    /\ pc' = [pc EXCEPT ![c] = "idle"]
    /\ UNCHANGED <<vertices, projector, relabelled>>
    /\ UNCHANGED peripherals

NextConcurrent ==
    \/ \E c \in Callers, p \in Queries : Begin(c, p)
    \/ \E c \in Callers : WedgeStep(c)
    \/ \E c \in Callers : Finish(c)
    \/ \E c \in Callers : Take(c)

SpecConcurrent == InitConcurrent /\ [][NextConcurrent]_vars

(***************************************************************************)
(* The fallback of project (lines 193-207) on its own, applied to any      *)
(* retained candidate: the global vector of a wedge-local vector, whatever *)
(* its components.  pt holds the retained candidate.                       *)
(***************************************************************************)
CoarseMax == 2
CoarseCoords == {Norm(k, GridDen) : k \in -CoarseMax..CoarseMax}
WedgeLocals == {Vec4(a, b, c, d) : a \in CoarseCoords, b \in CoarseCoords,
                                   c \in CoarseCoords, d \in CoarseCoords}

\* Lines 193-207 with best = Some((the global vector of local in wedge
\* wedge_index, its minimum)) and no edge marked.
FallbackCall(wedge_index, local) ==
    /\ pc \in {"start", "ready"}
    /\ pt' = wedge_barycentric_local_to_global(wedge_index, local)
    /\ res' = Fallback([edges_to_check |-> [i \in 0..11 |-> FALSE],
                        best |-> Some(<<pt', VMin(local)>>),
                        probed |-> <<>>])
    /\ pc' = "returned"
    /\ UNCHANGED <<vertices, projector, relabelled>>
    /\ UNCHANGED peripherals

NextFallback ==
    \/ \E w \in 0..3, local \in WedgeLocals : FallbackCall(w, local)
    \/ Return

SpecFallback == Init /\ [][NextFallback]_vars


(***************************************************************************)
(* A caller that constructs either projector with a renormalising step, an *)
(* OctahedronProjector or a ClippingTriangleProjector, and calls it.       *)
(***************************************************************************)
\* OctahedronProjector::project(pt) on an octahedron projector
OctahedronProjectCall(p) ==
    /\ Dim(vertices) = 6
    /\ Project(p)

\* ClippingTriangleProjector::clipping_project(pt) on a triangle projector
ClippingProjectCall(p) ==
    /\ Dim(vertices) = 3
    /\ ClippingProject(p)

NextRenormalise ==
    \/ \E vs \in OctahedronInputs : New(vs)
    \/ \E vs \in TriangleInputs : NewTriangle(vs)
    \/ \E p \in Grid : OctahedronProjectCall(p)
    \/ \E p \in Grid : ClippingProjectCall(p)
    \/ Return

SpecRenormalise == Init /\ [][NextRenormalise]_vars

(***************************************************************************)
(* The firmware driving the display through Gdep073e01State.  An operation *)
(* is available when the wrapper's state type has it (its impl block); the *)
(* hardware decides whether it succeeds.                                   *)
(***************************************************************************)
\* The number of driver operations in one behaviour.
MaxOps == 7

DisplayStep(new) ==
    /\ Len(new.log) <= MaxOps
    /\ display' = new
    /\ UNCHANGED <<vertices, projector, relabelled, pt, res, pc,
                   dither, packer, interface>>

\* impl<STATE>: any state
DisplayReset(ok) == DisplayStep(reset(display, ok))

\* impl Gdep073e01State<StateReset>
DisplayInit(ok) ==
    /\ display.state = StateReset
    /\ DisplayStep(init(display, ok))

\* impl Gdep073e01State<StatePowerOff>
DisplayPowerOnNoWait(ok) ==
    /\ display.state = StatePowerOff
    /\ DisplayStep(power_on_no_wait(display, ok))

DisplayPowerOn(ok, ok_wait) ==
    /\ display.state = StatePowerOff
    /\ DisplayStep(power_on(display, ok, ok_wait))

\* impl<DONESTATE> Gdep073e01State<StateBusy<DONESTATE>>
DisplayWait(ok) ==
    /\ Head(display.state) = "StateBusy"
    /\ DisplayStep(wait(display, ok))

\* impl Gdep073e01State<StatePowerOn>
DisplayPowerOffNoWait(ok) ==
    /\ display.state = StatePowerOn
    /\ DisplayStep(power_off_no_wait(display, ok))

DisplayPowerOff(ok, ok_wait) ==
    /\ display.state = StatePowerOn
    /\ DisplayStep(power_off(display, ok, ok_wait))

DisplayUpdateFrame(ok) ==
    /\ display.state = StatePowerOn
    /\ DisplayStep(update_frame(display, ok))

DisplayFrameNoWait(ok) ==
    /\ display.state = StatePowerOn
    /\ DisplayStep(display_frame_no_wait(display, ok))

DisplayFrame(ok, ok_wait) ==
    /\ display.state = StatePowerOn
    /\ DisplayStep(display_frame(display, ok, ok_wait))

NextDisplay ==
    \/ \E ok \in BOOLEAN : DisplayReset(ok)
    \/ \E ok \in BOOLEAN : DisplayInit(ok)
    \/ \E ok \in BOOLEAN : DisplayPowerOnNoWait(ok)
    \/ \E ok, ok_wait \in BOOLEAN : DisplayPowerOn(ok, ok_wait)
    \/ \E ok \in BOOLEAN : DisplayWait(ok)
    \/ \E ok \in BOOLEAN : DisplayPowerOffNoWait(ok)
    \/ \E ok, ok_wait \in BOOLEAN : DisplayPowerOff(ok, ok_wait)
    \/ \E ok \in BOOLEAN : DisplayUpdateFrame(ok)
    \/ \E ok \in BOOLEAN : DisplayFrameNoWait(ok)
    \/ \E ok, ok_wait \in BOOLEAN : DisplayFrame(ok, ok_wait)

SpecDisplay == Init /\ [][NextDisplay]_vars

(***************************************************************************)
(* A consumer draining a SpectraPacker.                                    *)
(***************************************************************************)
\* The longest pixel source packed.
MaxPacked == 3

RECURSIVE SeqsOfLen(_, _)
SeqsOfLen(S, n) ==
    IF n = 0 THEN {<<>>}
    ELSE {Append(q, e) : q \in SeqsOfLen(S, n - 1), e \in S}

PixelSources == UNION {SeqsOfLen(Spectra6Colors, n) : n \in 0..MaxPacked}

PackerNew(pixels) ==
    /\ ~packer.constructed
    /\ packer' = SpectraPacker(pixels)
    /\ UNCHANGED <<vertices, projector, relabelled, pt, res, pc,
                   display, dither, interface>>

PackerNext ==
    /\ packer.constructed
    /\ ~packer.done
    /\ packer' = SpectraPackerNext(packer)
    /\ UNCHANGED <<vertices, projector, relabelled, pt, res, pc,
                   display, dither, interface>>

NextPacker ==
    \/ \E pixels \in PixelSources : PackerNew(pixels)
    \/ PackerNext

SpecPacker == Init /\ [][NextPacker]_vars

(***************************************************************************)
(* A driver calling a DisplayInterfaceAsync, one call at a time, on        *)
(* hardware that may fail.                                                 *)
(***************************************************************************)
\* The longest data sequence sent.
MaxData == 66
\* The latest pin or bus operation of a call that may fail.
MaxFail == 4

\* Command::address() of PowerOn, DataStartTransmission and DisplayRefresh.
Commands == {4, 16, 18}
\* The data of length n: bytes 1, 2, .. (as u8).
DataOfLen(n) == [i \in 1..n |-> i % 256]
DataInputs == {DataOfLen(n) : n \in 0..MaxData}
FailPoints == 0..MaxFail

InterfaceNew(single_byte_write) ==
    /\ ~interface.constructed
    /\ interface' = DisplayInterfaceAsyncNew(single_byte_write)
    /\ UNCHANGED <<vertices, projector, relabelled, pt, res, pc,
                   display, dither, packer>>

\* The caller makes `call` on hardware that fails at operation `fail`; r is
\* what the call does to the interface started with an empty bus trace.
InterfaceCall(call, r) ==
    /\ interface' = [r.h EXCEPT !.pc = "returned", !.call = call,
                                !.ret = [ok |-> r.ok, err |-> r.err]]
    /\ UNCHANGED <<vertices, projector, relabelled, pt, res, pc,
                   display, dither, packer>>

Idle == interface.constructed /\ interface.pc = "idle"
Armed(fail) == [interface EXCEPT !.spi = <<>>, !.fail = fail, !.failed = "none"]

InterfaceCmd(command, fail) ==
    /\ Idle
    /\ InterfaceCall([op |-> "cmd", command |-> command, data |-> <<>>],
                     cmd(Armed(fail), command))

InterfaceData(bytes, fail) ==
    /\ Idle
    /\ InterfaceCall([op |-> "data", command |-> 0, data |-> bytes],
                     data(Armed(fail), bytes))

InterfaceDataIter(bytes, fail) ==
    /\ Idle
    /\ InterfaceCall([op |-> "data_iter", command |-> 0, data |-> bytes],
                     data_iter(Armed(fail), bytes))

InterfaceCmdWithData(command, bytes, fail) ==
    /\ Idle
    /\ InterfaceCall([op |-> "cmd_with_data", command |-> command, data |-> bytes],
                     cmd_with_data(Armed(fail), command, bytes))

\* The caller takes the Result; the pin keeps its level.
InterfaceReturn ==
    /\ interface.constructed /\ interface.pc = "returned"
    /\ interface' = [interface EXCEPT !.pc = "idle", !.call = <<>>, !.ret = <<>>,
                                      !.spi = <<>>, !.fail = 0, !.failed = "none"]
    /\ UNCHANGED <<vertices, projector, relabelled, pt, res, pc,
                   display, dither, packer>>

NextInterface ==
    \/ \E single_byte_write \in BOOLEAN : InterfaceNew(single_byte_write)
    \/ \E c \in Commands, fail \in FailPoints : InterfaceCmd(c, fail)
    \/ \E d \in DataInputs, fail \in FailPoints : InterfaceData(d, fail)
    \/ \E d \in DataInputs, fail \in FailPoints : InterfaceDataIter(d, fail)
    \/ \E c \in Commands, d \in DataInputs, fail \in FailPoints :
          InterfaceCmdWithData(c, d, fail)
    \/ InterfaceReturn

SpecInterface == Init /\ [][NextInterface]_vars

(***************************************************************************)
(* A consumer draining a ForwardErrorDiffusion whose source yields any     *)
(* colours and then ends.                                                  *)
(***************************************************************************)
\* The widest image and the longest source dithered.
MaxWidth == 3
MaxPixels == 8

Methods == {FloydSteinberg, JarvisJudiceAndNinke, Atkinson}
\* Rgb888 greys on either side of the threshold.
SourceColors == {<<100, 100, 100>>, <<200, 200, 200>>}

DitherNew(method, width) ==
    /\ ~dither.constructed
    /\ dither' = ForwardErrorDiffusionNew(method, width)
    /\ UNCHANGED <<vertices, projector, relabelled, pt, res, pc,
                   display, packer, interface>>

DitherNext(item) ==
    /\ dither.constructed
    /\ ~dither.done
    /\ item.some => Len(dither.pixels) < MaxPixels
    /\ dither' = ForwardErrorDiffusionNext(dither, item)
    /\ UNCHANGED <<vertices, projector, relabelled, pt, res, pc,
                   display, packer, interface>>

NextDither ==
    \/ \E method \in Methods, width \in 1..MaxWidth : DitherNew(method, width)
    \/ \E c \in SourceColors : DitherNext(Some(c))
    \/ DitherNext(None)

SpecDither == Init /\ [][NextDither]_vars
Next ==
    \/ \E vs \in OctahedronInputs : New(vs)
    \/ \E p \in Grid : Project(p)
    \/ Return

Spec == Init /\ [][Next]_vars

(***************************************************************************)
(* Geometry used to state the properties (independent of the projectors).  *)
(***************************************************************************)
RAbs(a) == IF a[1] < 0 THEN RNeg(a) ELSE a

\* The point sum_i w[i] * vs[i].
Reconstruct(vs, w) ==
    [k \in 0..2 |-> VSum([i \in DOMAIN w |-> RMul(w[i], vs[i][k])])]

ValidWeights(w) == (\A i \in DOMAIN w : RGe(w[i], zero)) /\ VSum(w) = one

OneHot(n, k) == [i \in 0..(n - 1) |-> IF i = k THEN one ELSE zero]

\* |x| + |y| + |z| of a point: the regular octahedron is the set where it is
\* at most 1.
L1(p) == RAdd(RAdd(RAbs(p[0]), RAbs(p[1])), RAbs(p[2]))

\* w describes the point of the convex hull of vs nearest to p: the point q is
\* in the hull, and no vertex (hence no point of the hull) lies on p's side
\* of the plane through q orthogonal to p - q.
IsNearest(vs, w, p) ==
    /\ ValidWeights(w)
    /\ LET q == Reconstruct(vs, w)
       IN  \A k \in DOMAIN vs : RLe(Dot(VSub(p, q), VSub(vs[k], q)), zero)

\* The vertex indices of face i, as OctahedronProjector::new lays them out.
FaceVertices(i) == <<i \div 4, 2 + (i % 4), 2 + ((i + 1) % 4)>>

\* Every vertex that is not on a face lies strictly on one and the same side
\* of the face's plane.
IsConvex(vs) ==
    \A i \in 0..7 :
        LET f == FaceVertices(i)
            n == Cross(VSub(vs[f[2]], vs[f[1]]), VSub(vs[f[3]], vs[f[1]]))
            Side(k) == Dot(n, VSub(vs[k], vs[f[1]]))
            others == (0..5) \ {f[1], f[2], f[3]}
        IN  \/ \A k \in others : RLt(Side(k), zero)
            \/ \A k \in others : RGt(Side(k), zero)

Returned == pc = "returned" /\ res.path # "panic"

(***************************************************************************)
(* C1: whatever the vertices of a projector that was constructed and       *)
(* whatever the query point, project returns six weights that are all      *)
(* >= 0 and sum to exactly 1, on each of its return paths.                 *)
(***************************************************************************)
C1_WeightsValid == pc = "returned" => (res.path # "panic" /\ ValidWeights(res.ret))

\* The clamp-and-renormalise fallback returned, and it had to clamp.
C1_Witness ==
    /\ Returned
    /\ res.path = "fallback"
    /\ \E w \in 0..3 :
          RLt(VMin(TetrahedronProject(projector.wedges[w], pt)), zero)

(***************************************************************************)
(* C2: for the regular octahedron and a query point strictly outside it,   *)
(* the point the returned weights describe is the point of the octahedron  *)
(* nearest to the query point.                                             *)
(***************************************************************************)
C2_NearestPoint ==
    (Returned /\ vertices = Regular /\ RGt(L1(pt), one))
        => IsNearest(vertices, res.ret, pt)

\* A clean face return for a point outside the regular octahedron.
C2_Witness ==
    /\ Returned /\ vertices = Regular /\ RGt(L1(pt), one)
    /\ res.path = "face"
    /\ \A i \in 0..2 : RGt(res.ret[FaceVertices(res.index)[i + 1]], zero)

(***************************************************************************)
(* C3: for the regular octahedron and a query point inside or on it,       *)
(* project returns from the wedge step; the weights reconstruct the query  *)
(* point exactly and only the four vertices of one wedge carry weight.     *)
(***************************************************************************)
C3_InsideByWedge ==
    (Returned /\ vertices = Regular /\ RLe(L1(pt), one))
        => /\ res.path = "wedge"
           /\ Reconstruct(vertices, res.ret) = pt
           /\ \E w \in 0..3 :
                 \A i \in 2..5 :
                    i \notin {2 + w, 2 + ((w + 1) % 4)} => res.ret[i] = zero

\* An inside point found in the last wedge, with weight on the ring vertex
\* the wedge wraps around to.
C3_Witness ==
    /\ Returned /\ vertices = Regular /\ RLe(L1(pt), one)
    /\ res.path = "wedge" /\ res.index = 3
    /\ RGt(res.ret[2], zero) /\ RGt(res.ret[5], zero)

(***************************************************************************)
(* C4: for a convex octahedron, project(vertices[k]) is the one-hot vector *)
(* of k, for every k in 0..5.                                              *)
(***************************************************************************)
C4_VertexOneHot ==
    (Returned /\ IsConvex(vertices))
        => \A k \in 0..5 : pt = vertices[k] => res.ret = OneHot(6, k)

\* The last ring vertex of the irregular convex octahedron was queried.
C4_Witness == Returned /\ vertices = Skew /\ pt = vertices[5]

(***************************************************************************)
(* C5: for the regular octahedron, a query point (0,0,z) with z > 1        *)
(* projects to the one-hot vector of pole 0, and with z < -1 to the        *)
(* one-hot vector of pole 1.                                               *)
(***************************************************************************)
C5_PoleAxis ==
    (Returned /\ vertices = Regular /\ pt[0] = zero /\ pt[1] = zero)
        => /\ RGt(pt[2], one) => res.ret = OneHot(6, 0)
           /\ RLt(pt[2], RNeg(one)) => res.ret = OneHot(6, 1)

C5_Witness == Returned /\ vertices = Regular /\ pt = Pt(0, 0, 2)

(***************************************************************************)
(* C6: for the regular octahedron and a query point outside it with z > 0  *)
(* (such as (2,2,2)), the weights are valid and pole 1 has weight 0.       *)
(***************************************************************************)
C6_NoOppositePole ==
    (Returned /\ vertices = Regular /\ RGt(L1(pt), one) /\ RGt(pt[2], zero))
        => ValidWeights(res.ret) /\ res.ret[1] = zero

C6_Witness == Returned /\ vertices = Regular /\ pt = Pt(2, 2, 2)

(***************************************************************************)
(* C7: for the regular octahedron and a query point (1-t)*e_k + t*e_(k+1)  *)
(* on a ring edge, 0 <= t <= 1, the weights are 1-t on ring vertex k, t on *)
(* ring vertex k+1 mod 4 and 0 on the four other vertices.                 *)
(***************************************************************************)
\* The parameter of the point of the line a-b nearest to p.
Param(a, b, p) == RDiv(Dot(VSub(p, a), VSub(b, a)), NormSquared(VSub(b, a)))
OnSegment(a, b, p) ==
    LET t == Param(a, b, p)
    IN  RGe(t, zero) /\ RLe(t, one) /\ p = VAdd(a, VScale(VSub(b, a), t))

C7_RingEdge ==
    (Returned /\ vertices = Regular)
        => \A k \in 0..3 :
              LET a == 2 + k
                  b == 2 + ((k + 1) % 4)
                  t == Param(vertices[a], vertices[b], pt)
              IN  OnSegment(vertices[a], vertices[b], pt)
                      => res.ret = [i \in 0..5 |-> IF i = a THEN RSub(one, t)
                                                   ELSE IF i = b THEN t ELSE zero]

\* A point strictly between the last ring vertex and the first.
C7_Witness ==
    /\ Returned /\ vertices = Regular
    /\ OnSegment(vertices[5], vertices[2], pt)
    /\ pt # vertices[5] /\ pt # vertices[2]

(***************************************************************************)
(* C8: rotation invariance of the ring labelling.                          *)
(***************************************************************************)
\* The projector built with the ring rotated by r returns the weights of
\* res with the ring weights rotated by r and the pole weights unchanged.
RotationConsistent(r) ==
    LET rotated == OctahedronProject(relabelled[r], pt)
    IN  /\ rotated.path # "panic"
        /\ rotated.ret = Rotate(res.ret, r)

\* C8 as stated: for every octahedron, every query point and every
\* rotation r in 1..3 the rotated projector returns the rotated weights.
C8_RotationInvariant == Returned => \A r \in 1..3 : RotationConsistent(r)

\* C8 for convex octahedra: for every convex octahedron, every query point
\* and every rotation r in 1..3 the rotated projector returns the rotated
\* weights.
C8_RotationInvariantConvex ==
    (Returned /\ IsConvex(vertices)) => \A r \in 1..3 : RotationConsistent(r)

\* A nearest-edge return on the irregular convex octahedron.
C8_Witness ==
    /\ Returned /\ vertices = Skew /\ res.path = "edge"
    /\ \E i \in 2..5 : RGt(res.ret[i], zero) /\ RLt(res.ret[i], one)

(***************************************************************************)
(* C9: for every non-degenerate triangle and every query point,            *)
(* clipping_project returns three weights that are all >= 0 and sum to     *)
(* exactly 1, on each of its three return paths.                           *)
(***************************************************************************)
C9_ClippedWeightsValid == pc = "returned" => ValidWeights(res.bary)

\* A clean-edge early return with weight on both ends of the edge.
C9_Witness ==
    /\ pc = "returned" /\ res.path = "edge"
    /\ \E i \in 0..2 : RGt(res.bary[i], zero) /\ RLt(res.bary[i], one)

(***************************************************************************)
(* C10: for every non-degenerate triangle and every query point whose raw  *)
(* barycentric vector has a negative component, clipping_project returns   *)
(* the weights of the point of the closed triangle nearest to the query    *)
(* point, on the clean-edge early return and on the best-candidate return. *)
(***************************************************************************)
C10_NearestOnTriangle ==
    (pc = "returned"
     /\ RLt(VMin(ClippingTriangleProjectRaw(projector, pt)), zero))
        => /\ res.path \in {"edge", "best"}
           /\ IsNearest(vertices, res.bary, pt)

\* Two raw components were negative, both edges were clipped, and the
\* candidates were compared.
C10_Witness ==
    /\ pc = "returned" /\ res.path = "best"
    /\ vertices = ObtuseTriangle
    /\ Cardinality({i \in 0..2 :
           RLt(ClippingTriangleProjectRaw(projector, pt)[i], zero)}) = 2

(***************************************************************************)
(* C11: clipping_project returns (raw, false, None) with raw = project(p)  *)
(* exactly when every raw component is >= 0, and was_clipped = true        *)
(* otherwise.  The squared distance is Some exactly when the result was    *)
(* clipped and no edge opposite a negative component projected cleanly,    *)
(* and then it is the squared distance between p and the point the         *)
(* returned weights describe; on the clean-edge return it is None.         *)
(***************************************************************************)
\* The edge opposite vertex i of the triangle vs: p projects onto its line
\* between its two ends.
ProjectsCleanly(vs, i, p) ==
    LET a == vs[(i + 1) % 3]
        b == vs[(i + 2) % 3]
        t == Param(a, b, p)
    IN  RGe(t, zero) /\ RLe(t, one)

C11_ClippedFlagAndDistance ==
    pc = "returned" =>
        LET raw == TriangleProject(TriangleNew(vertices), pt)
            negative == {i \in 0..2 : RLt(raw[i], zero)}
            none_clean == \A i \in negative : ~ProjectsCleanly(vertices, i, pt)
        IN  /\ res.clipped <=> negative # {}
            /\ ~res.clipped => (res.bary = raw /\ ~res.dist.some)
            /\ res.dist.some <=> (res.clipped /\ none_clean)
            /\ res.dist.some =>
                   res.dist.val =
                       NormSquared(VSub(pt, Reconstruct(vertices, res.bary)))

\* A clipped edge end was nearer than the clamped baseline and its distance
\* was handed out.
C11_Witness ==
    /\ pc = "returned" /\ res.dist.some /\ RGt(res.dist.val, zero)
    /\ LET raw == ClippingTriangleProjectRaw(projector, pt)
           clamped == ClampNegative(raw)
       IN  res.bary # VDivS(clamped, VSum(clamped))

(***************************************************************************)
(* C12: LineProjector.project never divides by zero: for a zero-length     *)
(* segment it returns exactly (1, 0) for every query point, and for any    *)
(* segment it returns exactly (1, 0) when the query point is the origin a. *)
(***************************************************************************)
C12_NoDivisionByZero ==
    (pc = "returned" /\ res.op = "project")
        => /\ \A i \in 0..1 : res.ret[i][2] # 0
           /\ (vertices[0] = vertices[1] \/ pt = vertices[0])
                  => res.ret = Vec2(one, zero)

\* The zero-length segment was queried at a point that is not its origin.
C12_Witness ==
    /\ pc = "returned" /\ res.op = "project"
    /\ vertices = PointSegment /\ pt # vertices[0]

(***************************************************************************)
(* C13: LineProjector.clipping_project returns ((0,1), true) when raw      *)
(* component 0 of project(p) is negative, ((1,0), true) when raw component *)
(* 1 is negative and (raw, false) otherwise; the two are never both        *)
(* negative; the returned components are in [0,1], sum to 1 and describe   *)
(* the point of the segment nearest to p.                                  *)
(***************************************************************************)
C13_LineClipping ==
    (pc = "returned" /\ res.op = "clipping_project")
        => LET raw == LineProject(projector, pt)
               bary == res.ret[1]
               clipped == res.ret[2]
           IN  /\ ~(RLt(raw[0], zero) /\ RLt(raw[1], zero))
               /\ RLt(raw[0], zero) => (bary = Vec2(zero, one) /\ clipped)
               /\ RLt(raw[1], zero) => (bary = Vec2(one, zero) /\ clipped)
               /\ (RGe(raw[0], zero) /\ RGe(raw[1], zero))
                      => (bary = raw /\ ~clipped)
               /\ \A i \in 0..1 : RLe(bary[i], one)
               /\ IsNearest(vertices, bary, pt)

\* A point before the start of the segment was clipped to the start.
C13_Witness ==
    /\ pc = "returned" /\ res.op = "clipping_project"
    /\ vertices = SkewSegment
    /\ res.ret = <<Vec2(one, zero), TRUE>>
    /\ pt # vertices[0]

(***************************************************************************)
(* C14: round trip for a LineProjector.                                    *)
(***************************************************************************)
\* The point p lies on the line through the two ends of the segment vs.
OnLine(vs, p) ==
    Cross(VSub(p, vs[0]), VSub(vs[1], vs[0])) = Vec3(zero, zero, zero)

\* C14 as stated: for a non-degenerate segment, bary_to_point(project(p)) = p
\* for any point p, and project(bary_to_point(c)) = c for any pair c.
C14_RoundTrip ==
    (pc = "returned" /\ vertices[0] # vertices[1])
        => /\ res.op = "project" => LineBaryToPoint(projector, res.ret) = pt
           /\ res.op = "bary_to_point" => LineProject(projector, res.ret) = pt

\* C14 for what the two coordinates can carry: for a non-degenerate segment,
\* bary_to_point(project(p)) is the foot of the perpendicular from p to the
\* line through a and b, hence p when p is on that line; and
\* project(bary_to_point(c)) = c for every pair c whose components sum to 1.
C14_RoundTripOnLine ==
    (pc = "returned" /\ vertices[0] # vertices[1])
        => /\ res.op = "project" =>
                  LET q == LineBaryToPoint(projector, res.ret)
                  IN  /\ OnLine(vertices, q)
                      /\ Dot(VSub(pt, q), VSub(vertices[1], vertices[0])) = zero
                      /\ OnLine(vertices, pt) => q = pt
           /\ (res.op = "bary_to_point" /\ VSum(pt) = one)
                  => LineProject(projector, res.ret) = pt

\* A point of the line before the segment's start was projected.
C14_Witness ==
    /\ pc = "returned" /\ res.op = "project"
    /\ vertices = AxisSegment /\ OnLine(vertices, pt)
    /\ RLt(res.ret[1], zero)

(***************************************************************************)
(* C15: round trip for a TetrahedronProjector: for every non-degenerate    *)
(* tetrahedron and every point p, inside or outside,                       *)
(* bary_to_point(project(p)) = p, and for every 4-vector c whose           *)
(* components sum to 1, project(bary_to_point(c)) = c.                     *)
(***************************************************************************)
C15_TetrahedronRoundTrip ==
    (pc = "returned" /\ Dim(vertices) = 4)
        => /\ res.op = "project"
                  => TetrahedronBaryToPoint(projector, res.ret) = Some(pt)
           /\ (res.op = "bary_to_point" /\ VSum(pt) = one)
                  => TetrahedronProject(projector, res.ret.val) = pt

\* A point outside the irregular tetrahedron was projected.
C15_Witness ==
    /\ pc = "returned" /\ Dim(vertices) = 4 /\ res.op = "project"
    /\ vertices = SkewTetrahedron
    /\ RLt(VMin(res.ret), zero)

(***************************************************************************)
(* C16: TriangleProjector.project(p) = (w,u,v) depends only on the         *)
(* orthogonal projection of p onto the triangle's plane: for every scalar  *)
(* k, project(p + k*normal) = project(p) with normal =                     *)
(* (v2-v1) x (v3-v1); w*v1 + u*v2 + v*v3 is the foot of the perpendicular  *)
(* from p onto the plane, and it is p whenever p lies in the plane.        *)
(***************************************************************************)
C16_PlaneProjection ==
    (pc = "returned" /\ Dim(vertices) = 3 /\ res.op = "project")
        => LET v1 == vertices[0]
               normal == Cross(VSub(vertices[1], v1), VSub(vertices[2], v1))
               foot == ClippingTriangleBaryToPoint(projector, res.ret)
           IN  /\ \A k \in GridCoords :
                     TriangleProject(projector.normal_project,
                                     VAdd(pt, VScale(normal, k))) = res.ret
               /\ Dot(VSub(foot, v1), normal) = zero
               /\ Cross(VSub(pt, foot), normal) = Vec3(zero, zero, zero)
               /\ Dot(VSub(pt, v1), normal) = zero => foot = pt

\* A point off the plane of the tilted triangle was projected.
C16_Witness ==
    /\ pc = "returned" /\ Dim(vertices) = 3 /\ res.op = "project"
    /\ vertices = TiltedTriangle
    /\ ClippingTriangleBaryToPoint(projector, res.ret) # pt

(***************************************************************************)
(* C17: the unclamped projections preserve the affine sum: the components  *)
(* of TriangleProjector.project(p) and of TetrahedronProjector.project(p)  *)
(* sum to exactly 1 for every query point, also when single components are *)
(* negative or greater than 1.                                             *)
(***************************************************************************)
C17_AffineSum ==
    (pc = "returned" /\ res.op = "project") => VSum(res.ret) = one

\* A triangle projection with a negative component and one greater than 1.
C17_Witness ==
    /\ pc = "returned" /\ res.op = "project" /\ Dim(vertices) = 3
    /\ \E i \in 0..2 : RLt(res.ret[i], zero)
    /\ \E i \in 0..2 : RGt(res.ret[i], one)

(***************************************************************************)
(* C18: construction on degenerate geometry (three collinear points, four  *)
(* coplanar points) is handed to the caller as a failure result and does   *)
(* not abort: the program is never stopped inside a constructor.           *)
(***************************************************************************)
C18_FallibleConstruction == ~(pc = "panicked" /\ ~projector.ok)

(***************************************************************************)
(* C19: for a constructed projector every call of project returns a vector *)
(* of six weights after scanning at most 4 wedges, probing at most 8 faces *)
(* and testing at most 12 edges, and neither Option unwrap (the best wedge *)
(* of the fallback, the best marked edge) meets an empty value.            *)
(***************************************************************************)
C19_ProjectAlwaysReturns ==
    pc = "returned" =>
        /\ res.path # "panic"
        /\ DOMAIN res.ret = 0..5
        /\ res.wedges <= 4
        /\ Len(res.probed) <= 8
        /\ Cardinality({i \in 0..11 : res.edges_to_check[i]}) <= 12
        /\ res.path = "fallback" => \A i \in 0..11 : ~res.edges_to_check[i]
        /\ res.path = "edge" => res.edges_to_check[res.index]

\* All four wedges were scanned, at least four faces were probed without a
\* clean projection, and the best of several marked edges was unwrapped.
C19_Witness ==
    /\ pc = "returned" /\ res.path = "edge"
    /\ res.wedges = 4 /\ Len(res.probed) >= 4
    /\ Cardinality({i \in 0..11 : res.edges_to_check[i]}) >= 3

(***************************************************************************)
(* C20: for any interleaving of the steps of project calls issued by       *)
(* several callers against the same projector, every call returns exactly  *)
(* what it returns when run alone on the same query point, and the         *)
(* projector's stored fields are never changed by a step.                  *)
(***************************************************************************)
ReturnsAsAlone ==
    \A c \in Callers :
        pc[c] = "returned" =>
            \A alone \in {OctahedronProject(projector, pt[c])} :
                res[c].ret = alone.ret /\ res[c].path = alone.path

C20_PureUnderInterleaving ==
    /\ []ReturnsAsAlone
    /\ [][projector' = projector /\ vertices' = vertices]_vars

\* One call has returned through the edges while another call, on another
\* query point, is between two wedges with edges of its own marked.
C20_Witness ==
    \E c, d \in Callers :
        /\ pc[c] = "returned" /\ res[c].path = "edge"
        /\ pc[d] = "wedges" /\ pt[d] # pt[c]
        /\ \E i \in 0..11 : res[d].edges_to_check[i] /\ ~res[c].edges_to_check[i]

(***************************************************************************)
(* C21: the fallback clamps the negative components of the retained        *)
(* candidate to 0 and divides by the component sum.                        *)
(***************************************************************************)
\* v with its negative components replaced by 0.
PositivePart(v) == [i \in DOMAIN v |-> IF v[i][1] < 0 THEN zero ELSE v[i]]

VertexLists(n) ==
    {l \in [0..(n - 1) -> 0..5] :
        \A a, b \in 0..(n - 1) : a # b => l[a] # l[b]}

\* sub is what Build makes of exactly one ordered choice of input vertices,
\* and global holds j + 1 at the slot of the j-th chosen vertex and 0 in
\* every other slot (global being the remap of the local vector 1, 2, ..).
PlacedAsBuilt(n, sub, Build(_), global) ==
    LET built == {l \in VertexLists(n) :
                     Build([j \in 0..(n - 1) |-> vertices[l[j]]]) = sub}
    IN  /\ Cardinality(built) = 1
        /\ \A l \in built : \A k \in 0..5 :
              global[k] = IF \E j \in 0..(n - 1) : l[j] = k
                          THEN Int2R(1 + CHOOSE j \in 0..(n - 1) : l[j] = k)
                          ELSE zero

EdgeEnds(e) ==
    IF e < 8 THEN {e \div 4, 2 + (e % 4)} ELSE {2 + (e % 4), 2 + ((e + 1) % 4)}

\* The edges of face f opposite a face vertex whose component of the
\* projection of p onto the face is <= 0.
EdgesBehind(f, p) ==
    LET local == TriangleProject(projector.faces[f], p)
        fv == FaceVertices(f)
    IN  {e \in 0..11 :
            \E j \in 0..2 :
                /\ RLe(local[j], zero)
                /\ EdgeEnds(e) = {fv[1], fv[2], fv[3]} \ {fv[j + 1]}}

C23_EdgeMarking ==
    Returned =>
        LET probed == {res.probed[n] : n \in 1..Len(res.probed)}
            unclean == {f \in probed :
                           RLt(VMin(TriangleProject(projector.faces[f], pt)), zero)}
        IN  /\ \A f \in probed :
                  RLe(TetrahedronProject(projector.wedges[f % 4], pt)[1 - (f \div 4)],
                      zero)
            /\ \A w \in 0..(res.wedges - 1), q \in 0..1 :
                  (/\ RLe(TetrahedronProject(projector.wedges[w], pt)[q], zero)
                   /\ res.path # "wedge"
                   /\ (res.path = "face" =>
                          \/ w < res.index % 4
                          \/ (w = res.index % 4 /\ q <= 1 - (res.index \div 4))))
                      => ((1 - q) * 4 + w) \in probed
            /\ \A f \in unclean : EdgesBehind(f, pt) # {}
            /\ \A e \in 0..11 :
                  res.edges_to_check[e] <=> \E f \in unclean : e \in EdgesBehind(f, pt)

\* A probed face had a pole component <= 0 and an equatorial component <= 0:
\* a ring edge and a pole edge were marked by the same face.
C23_Witness ==
    /\ Returned /\ res.path = "edge"
    /\ \E n \in 1..Len(res.probed) :
          LET f == res.probed[n]
              local == TriangleProject(projector.faces[f], pt)
          IN  /\ RLe(local[0], zero) /\ RLe(local[1], zero)
              /\ res.edges_to_check[8 + (f % 4)]
              /\ res.edges_to_check[(f \div 4) * 4 + ((f + 1) % 4)]

(***************************************************************************)
(* C24: when an edge is marked and no wedge or face returned, project      *)
(* returns the global remap of the clipped projection onto a marked edge   *)
(* whose clipped point is nearest to p among the marked edges; the edges   *)
(* evaluated are exactly the marked ones, and among the nearest marked     *)
(* edges the one of lowest index is returned.                              *)
(***************************************************************************)
\* Squared distance from p to its clipped projection onto edge e.
EdgeDistance(e, p) ==
    LET edge == projector.edges[e]
    IN  NormSquared(VSub(LineBaryToPoint(edge, LineClippingProject(edge, p)[1]), p))

C24_NearestMarkedEdge ==
    (Returned /\ res.path \notin {"wedge", "face"}
              /\ \E e \in 0..11 : res.edges_to_check[e]) =>
        LET marked == {e \in 0..11 : res.edges_to_check[e]}
            d == [e \in marked |-> EdgeDistance(e, pt)]
        IN  /\ res.path = "edge"
            /\ res.index \in marked
            /\ {res.evaluated[n] : n \in 1..Len(res.evaluated)} = marked
            /\ res.ret = edge_barycentric_local_to_global(
                             res.index,
                             LineClippingProject(projector.edges[res.index], pt)[1])
            /\ \A e \in marked : RLe(d[res.index], d[e])
            /\ \A e \in marked : d[e] = d[res.index] => res.index <= e

\* Two marked edges are equally near but lead to different weights, and a
\* marked edge farther away exists as well.
C24_Witness ==
    /\ Returned /\ res.path = "edge"
    /\ \E e \in 0..11 :
          /\ res.edges_to_check[e] /\ e > res.index
          /\ EdgeDistance(e, pt) = EdgeDistance(res.index, pt)
          /\ edge_barycentric_local_to_global(
                 e, LineClippingProject(projector.edges[e], pt)[1]) # res.ret
    /\ \E e \in 0..11 :
          /\ res.edges_to_check[e]
          /\ RGt(EdgeDistance(e, pt), EdgeDistance(res.index, pt))

C26_NoFallbackForRegular ==
    (Returned /\ vertices = Regular) =>
        /\ res.path \in {"wedge", "face", "edge"}
        /\ \/ \E w \in 0..3 :
                 RGe(VMin(TetrahedronProject(projector.wedges[w], pt)), zero)
           \/ \E n \in 1..Len(res.probed) :
                 RGe(VMin(TriangleProject(projector.faces[res.probed[n]], pt)), zero)
           \/ \E e \in 0..11 : res.edges_to_check[e]

\* A point outside the regular octahedron for which no probed face was
\* clean: the scan ended with marked edges.
C26_Witness ==
    /\ Returned /\ vertices = Regular
    /\ res.path = "edge" /\ res.wedges = 4
    /\ \A n \in 1..Len(res.probed) :
          RLt(VMin(TriangleProject(projector.faces[res.probed[n]], pt)), zero)

(***************************************************************************)
(* C27: every update_frame and display_frame issued to the display comes   *)
(* after a successful reset, a successful init and a power_on completed by *)
(* a wait, with no error since that reset; after a display_frame, power_on *)
(* or power_off the next operation is a wait (or a reset); an operation    *)
(* that returned an error leaves the wrapper in StateUnknown, where no     *)
(* operation but reset is available.                                       *)
(***************************************************************************)
\* Operation i of the log was issued to a display that had been reset,
\* initialised and powered on without an error since.
IssuedPoweredOn(log, i) ==
    \E r \in 1..(i - 1) :
        /\ log[r].op = "reset"
        /\ \A k \in r..(i - 1) : log[k].ok
        /\ \E n \in (r + 1)..(i - 1) :
              /\ log[n].op = "init"
              /\ \E p \in (n + 1)..(i - 2) :
                    log[p].op = "power_on" /\ log[p + 1].op = "wait_until_idle"

OnlyResetAvailable ==
    /\ ~ENABLED (\E ok \in BOOLEAN : DisplayInit(ok))
    /\ ~ENABLED (\E ok \in BOOLEAN : DisplayPowerOnNoWait(ok))
    /\ ~ENABLED (\E ok, ok_wait \in BOOLEAN : DisplayPowerOn(ok, ok_wait))
    /\ ~ENABLED (\E ok \in BOOLEAN : DisplayWait(ok))
    /\ ~ENABLED (\E ok \in BOOLEAN : DisplayPowerOffNoWait(ok))
    /\ ~ENABLED (\E ok, ok_wait \in BOOLEAN : DisplayPowerOff(ok, ok_wait))
    /\ ~ENABLED (\E ok \in BOOLEAN : DisplayUpdateFrame(ok))
    /\ ~ENABLED (\E ok \in BOOLEAN : DisplayFrameNoWait(ok))
    /\ ~ENABLED (\E ok, ok_wait \in BOOLEAN : DisplayFrame(ok, ok_wait))
    /\ (Len(display.log) < MaxOps => ENABLED (\E ok \in BOOLEAN : DisplayReset(ok)))

C27_TypestateOrder ==
    LET log == display.log
    IN  /\ \A i \in 1..Len(log) :
              log[i].op \in {"update_frame", "display_frame"}
                  => IssuedPoweredOn(log, i)
        /\ \A i \in 1..(Len(log) - 1) :
              (log[i].op \in {"display_frame", "power_on", "power_off"} /\ log[i].ok)
                  => log[i + 1].op \in {"wait_until_idle", "reset"}
        /\ (Len(log) > 0 /\ ~log[Len(log)].ok) => display.state = StateUnknown
        /\ display.state = StateUnknown => OnlyResetAvailable

\* A frame was sent and shown after reset, init and power_on, and the
\* operation after it failed.
C27_Witness ==
    LET log == display.log
    IN  /\ Len(log) = 7
        /\ log[5].op = "update_frame" /\ log[5].ok
        /\ log[6].op = "display_frame" /\ log[6].ok
        /\ log[7].op = "wait_until_idle" /\ ~log[7].ok
        /\ display.state = StateUnknown

(***************************************************************************)
(* C29: a drained SpectraPacker has yielded ceil(n/2) bytes for a source   *)
(* of n pixels; byte k holds pixel 2k in its high nibble and pixel 2k+1 in *)
(* its low nibble, or White (1) in the low nibble when there is no pixel   *)
(* 2k+1; an empty source yields nothing.  Before it is drained the bytes   *)
(* yielded are the first of these.                                         *)
(***************************************************************************)
C29_PackedTwoPerByte ==
    packer.constructed =>
        LET n == Len(packer.pixels)
            out == packer.out
        IN  /\ packer.done => Len(out) * 2 \in {n, n + 1}
            /\ Len(out) * 2 <= n + 1
            /\ n = 0 => out = <<>>
            /\ \A k \in 0..(Len(out) - 1) :
                  /\ out[k + 1] \in 0..255
                  /\ out[k + 1] \div 16 = packer.pixels[2 * k + 1]
                  /\ out[k + 1] % 16 = IF 2 * k + 2 <= n
                                       THEN packer.pixels[2 * k + 2]
                                       ELSE 1

\* Three pixels, the last of them not White, packed into two bytes.
C29_Witness ==
    /\ packer.constructed /\ packer.done
    /\ Len(packer.pixels) = 3 /\ Len(packer.out) = 2
    /\ packer.pixels[3] = 6
    /\ packer.out[2] = 97

(***************************************************************************)
(* C30: in every call of the interface the command byte is written alone,  *)
(* first, with DC low, and every data write is made with DC high; the      *)
(* writes of data_iter are non-empty, at most 32 bytes long (one byte long *)
(* under SINGLE_BYTE_WRITE) and, put end to end, are the input; the data   *)
(* writes of cmd_with_data likewise carry the data after the command; the  *)
(* first pin or bus operation that fails ends the call, which returns that *)
(* error, the writes made before it being the start of the transfer.       *)
(***************************************************************************)
RECURSIVE Concat(_)
Concat(ws) == IF ws = <<>> THEN <<>> ELSE Head(ws).bytes \o Concat(Tail(ws))

IsPrefix(a, b) == Len(a) <= Len(b) /\ a = SubSeq(b, 1, Len(a))

C30_Framing ==
    (interface.constructed /\ interface.pc = "returned") =>
        LET call == interface.call
            ret == interface.ret
            spi == interface.spi
            has_cmd == call.op \in {"cmd", "cmd_with_data"}
            done == SelectSeq(spi, LAMBDA w : w.ok)
            data_writes == IF has_cmd /\ done # <<>> THEN Tail(done) ELSE done
        IN  /\ \A i \in 1..Len(spi) :
                  IF has_cmd /\ i = 1
                  THEN spi[i].dc = "low" /\ spi[i].bytes = <<call.command>>
                  ELSE spi[i].dc = "high"
            /\ call.op = "data_iter" =>
                  \A i \in 1..Len(spi) :
                      /\ Len(spi[i].bytes) \in 1..32
                      /\ interface.SINGLE_BYTE_WRITE => Len(spi[i].bytes) = 1
            /\ ret.ok => /\ Concat(data_writes) = call.data
                         /\ has_cmd => Len(done) >= 1
                         /\ done = spi
            /\ ret.ok <=> interface.failed = "none"
            /\ ret.err = "DC" <=> interface.failed = "dc"
            /\ ret.err = "SPI" <=> interface.failed = "spi"
            /\ ~ret.ok =>
                  /\ IsPrefix(Concat(data_writes), call.data)
                  /\ \A i \in 1..(Len(spi) - 1) : spi[i].ok
                  /\ interface.failed = "spi" => (spi # <<>> /\ ~spi[Len(spi)].ok)
                  /\ interface.failed = "dc" => done = spi

\* data_iter through write_iter sent two full buffers and a rest.
C30_Witness ==
    /\ interface.constructed /\ interface.pc = "returned"
    /\ interface.call.op = "data_iter" /\ ~interface.SINGLE_BYTE_WRITE
    /\ interface.ret.ok
    /\ Len(interface.spi) = 3
    /\ Len(interface.spi[1].bytes) = 32 /\ Len(interface.spi[3].bytes) = 1

(***************************************************************************)
(* C28: a ForwardErrorDiffusion of width >= 1 has yielded one colour per   *)
(* pixel taken from its source, in order, and ends with the source; every  *)
(* index it used was inside its buffer; the error it read for pixel (x, y) *)
(* is the sum of error * mul over the earlier pixels and targets aimed at  *)
(* (x, y) from inside the row, as a buffer of the whole image would hold,  *)
(* and the colour yielded is the closest one for that error.               *)
(***************************************************************************)
\* What a buffer of the whole image holds for pixel n (from 0) of an image
\* of the given width when pixel n is reached.
FullImageError(method, width, errors, n) ==
    LET x == n % width
        y == n \div width
        Aimed == {<<m, k>> \in (0..(n - 1)) \X (1..Len(method.targets)) :
                     /\ (m % width) + method.targets[k][1] = x
                     /\ (m \div width) + method.targets[k][2] = y}
        RECURSIVE Sum(_)
        Sum(S) == IF S = {} THEN 0
                  ELSE LET e == CHOOSE e \in S : TRUE
                       IN  errors[e[1] + 1] * method.targets[e[2]][3] + Sum(S \ {e})
    IN  Sum(Aimed)

C28_RingBufferEquivalent ==
    dither.constructed =>
        /\ dither.in_range
        /\ Len(dither.out) = Len(dither.pixels)
        /\ dither.x = Len(dither.pixels) % dither.width
        /\ dither.y = Len(dither.pixels) \div dither.width
        /\ \A n \in 0..(Len(dither.pixels) - 1) :
              LET full == FullImageError(dither.method, dither.width,
                                         dither.errors, n)
                  closest == get_closest(dither.pixels[n + 1],
                                         TruncDiv(full, dither.method.divisor))
              IN  /\ dither.consumed[n + 1] = full
                  /\ dither.out[n + 1] = closest.target
                  /\ dither.errors[n + 1] = closest.error

\* The source ended after a pixel whose row shares its row of the ring
\* with an earlier row, and that pixel read an error other than 0.
C28_Witness ==
    /\ dither.constructed /\ dither.done
    /\ dither.method = JarvisJudiceAndNinke /\ dither.width = 2
    /\ Len(dither.out) = 8
    /\ dither.consumed[8] # 0 /\ dither.consumed[7] # 0

====
